---- MODULE Spec2Model ----
(***************************************************************************)
(* pptx-masters: colour resolution engine, master/layout parsers, text     *)
(* extractor and the extract() orchestrator, as a state machine whose      *)
(* steps are calls of the public operations.                               *)
(*                                                                         *)
(* Conventions for JavaScript values:                                      *)
(*   - an object is a function with a string domain; a key the object does *)
(*     not have is a key outside DOMAIN;                                   *)
(*   - null / undefined where an object is expected is Null;               *)
(*   - a hex colour string 'RRGGBB' is a tuple of one-character strings;   *)
(*     the absent / empty string is <<>>;                                  *)
(*   - a number that is not an integer is an exact fraction <<n, d>>.      *)
(***************************************************************************)
EXTENDS Integers, Sequences, FiniteSets, TLC

VARIABLES
    resolver,   \* the closure built by createColorResolver
    op,         \* name of the operation invoked last
    arg,        \* its argument object
    ret,        \* the object it returned
    outputDir,  \* the files of the CLI's output directory, by name
    step        \* the await the CLI's run is suspended at, "exit" outside a run

vars == <<resolver, op, arg, ret, outputDir, step>>

\* no CLI run in progress and nothing written
NoRun ==
    /\ outputDir = <<>>
    /\ step = "exit"

----------------------------------------------------------------------------
(* JavaScript object helpers *)

Null == [null |-> TRUE]

Has(o, k) == k \in DOMAIN o

\* o[k] || dflt for a hex colour string (a tuple of characters)
HexOr(o, k, dflt) == IF Has(o, k) /\ o[k] # <<>> THEN o[k] ELSE dflt

\* o[k] || dflt for a name (a string)
NameOr(o, k, dflt) == IF Has(o, k) /\ o[k] # "" THEN o[k] ELSE dflt

\* { ...a, ...b }
Spread(a, b) == b @@ a

Abs(n) == IF n < 0 THEN -n ELSE n
Max2(a, b) == IF a >= b THEN a ELSE b
Min2(a, b) == IF a <= b THEN a ELSE b

----------------------------------------------------------------------------
(* Exact fractions standing for JavaScript numbers *)

RECURSIVE GCD(_, _)
GCD(a, b) == IF b = 0 THEN a ELSE GCD(b, a % b)

\* n / d in lowest terms, the denominator positive
Reduced(n, d, g) == <<n \div g, d \div g>>
Q(n, d) == Reduced(IF d < 0 THEN -n ELSE n, Abs(d), GCD(Abs(n), Abs(d)))

QInt(n) == <<n, 1>>
QAddOver(a, b, g) == Q(a[1] * (b[2] \div g) + b[1] * (a[2] \div g), (a[2] \div g) * b[2])
QAdd(a, b) == QAddOver(a, b, GCD(a[2], b[2]))
QNeg(a) == <<-a[1], a[2]>>
QSub(a, b) == QAdd(a, QNeg(b))
QMulOver(a, b, g1, g2) == Q((a[1] \div g1) * (b[1] \div g2), (a[2] \div g2) * (b[2] \div g1))
QMul(a, b) == QMulOver(a, b, GCD(Abs(a[1]), b[2]), GCD(Abs(b[1]), a[2]))
QDiv(a, b) == QMul(a, IF b[1] < 0 THEN <<-b[2], -b[1]>> ELSE <<b[2], b[1]>>)
QLt(a, b) == a[1] * b[2] < b[1] * a[2]
QGt(a, b) == QLt(b, a)
QMax(a, b) == IF QLt(a, b) THEN b ELSE a
QMin(a, b) == IF QLt(b, a) THEN b ELSE a
\* Math.trunc
QTrunc(a) == IF a[1] >= 0 THEN a[1] \div a[2] ELSE -((-a[1]) \div a[2])
\* Math.round: nearest integer, halves toward +Infinity
QRound(a) == (2 * a[1] + a[2]) \div (2 * a[2])
\* the % operator: remainder with the sign of the dividend
QRem(a, b) == QSub(a, QMul(b, QInt(QTrunc(QDiv(a, b)))))

----------------------------------------------------------------------------
(* colors.js: hex / RGB / HSL conversions *)

UpperDigits == <<"0","1","2","3","4","5","6","7","8","9","A","B","C","D","E","F">>
LowerDigits == <<"0","1","2","3","4","5","6","7","8","9","a","b","c","d","e","f">>

\* value of one hexadecimal digit character, either case
HexDigitVal(c) ==
    IF \E i \in 1..16 : UpperDigits[i] = c
    THEN (CHOOSE i \in 1..16 : UpperDigits[i] = c) - 1
    ELSE (CHOOSE i \in 1..16 : LowerDigits[i] = c) - 1

\* parseInt(s, 16) of a two-character slice
ParseInt16(s) == 16 * HexDigitVal(s[1]) + HexDigitVal(s[2])

hexToRgb(hex) ==
    <<ParseInt16(SubSeq(hex, 1, 2)), ParseInt16(SubSeq(hex, 3, 4)), ParseInt16(SubSeq(hex, 5, 6))>>

\* Number.prototype.toString(16) of an integer in 0..255
ToString16(n) ==
    IF n < 16 THEN <<LowerDigits[n + 1]>>
    ELSE <<LowerDigits[(n \div 16) + 1], LowerDigits[(n % 16) + 1]>>

PadStart2(s) == IF Len(s) < 2 THEN <<"0">> \o s ELSE s

ToUpperCase(s) ==
    [i \in 1..Len(s) |->
        IF \E k \in 1..16 : LowerDigits[k] = s[i]
        THEN UpperDigits[CHOOSE k \in 1..16 : LowerDigits[k] = s[i]]
        ELSE s[i]]

\* toHex without padStart(2, '0')
toHex_NoPad(v) == ToUpperCase(ToString16(Max2(0, Min2(255, v))))

toHex(v) == ToUpperCase(PadStart2(ToString16(Max2(0, Min2(255, v)))))

rgbToHex(r, g, b) == toHex(r) \o toHex(g) \o toHex(b)

\* rgbToHsl with the lightness taken from the largest channel alone
rgbToHsl_LightnessOfMax(r, g, b) ==
    <<QInt(0), QInt(0), Q(Max2(r, Max2(g, b)), 255)>>

\* r, g, b integers; result <<h, s, l>> as fractions, h in degrees
rgbToHsl(r, g, b) ==
    LET max == Max2(r, Max2(g, b))
        min == Min2(r, Min2(g, b))
        l   == Q(max + min, 510)
        d   == max - min
        s   == IF max + min > 255 THEN Q(d, 510 - max - min) ELSE Q(d, max + min)
        h   == IF max = r
               THEN QDiv(QAdd(Q(g - b, d), QInt(IF g < b THEN 6 ELSE 0)), QInt(6))
               ELSE IF max = g
               THEN QDiv(QAdd(Q(b - r, d), QInt(2)), QInt(6))
               ELSE QDiv(QAdd(Q(r - g, d), QInt(4)), QInt(6))
    IN  IF max = min THEN <<QInt(0), QInt(0), l>>
        ELSE <<QMul(h, QInt(360)), s, l>>

\* if (t < 0) t += 1
WrapUp(t) == IF QLt(t, QInt(0)) THEN QAdd(t, QInt(1)) ELSE t
\* if (t > 1) t -= 1
WrapDown(t) == IF QGt(t, QInt(1)) THEN QSub(t, QInt(1)) ELSE t

\* the channel value for t already wrapped into 0..1
HueSegment(p, q, t) ==
    IF QLt(t, Q(1, 6)) THEN QAdd(p, QMul(QMul(QSub(q, p), QInt(6)), t))
    ELSE IF QLt(t, Q(1, 2)) THEN q
    ELSE IF QLt(t, Q(2, 3)) THEN QAdd(p, QMul(QMul(QSub(q, p), QSub(Q(2, 3), t)), QInt(6)))
    ELSE p

hue2rgb(p, q, t0) == HueSegment(p, q, WrapDown(WrapUp(t0)))

\* h, s, l fractions; result integers
\* achromatic: r = g = b = Math.round(l * 255)
Grey(v) == <<v, v, v>>

\* q = l < 0.5 ? l * (1 + s) : l + s - l * s
HslQ(s, l) ==
    IF QLt(l, Q(1, 2)) THEN QMul(l, QAdd(QInt(1), s))
    ELSE QSub(QAdd(l, s), QMul(l, s))

\* p = 2 * l - q
HslP(l, q) == QSub(QMul(QInt(2), l), q)

\* the three channels from p, q and the hue as a fraction of the circle
HslChannels(p, q, h) ==
    <<QRound(QMul(hue2rgb(p, q, QAdd(h, Q(1, 3))), QInt(255))),
      QRound(QMul(hue2rgb(p, q, h), QInt(255))),
      QRound(QMul(hue2rgb(p, q, QSub(h, Q(1, 3))), QInt(255)))>>

hslToRgb(h0, s, l) ==
    IF s = QInt(0) THEN Grey(QRound(QMul(l, QInt(255))))
    ELSE HslChannels(HslP(l, HslQ(s, l)), HslQ(s, l), QDiv(h0, QInt(360)))

Clamp01(x) == QMax(QInt(0), QMin(QInt(1), x))

\* step 1 of applyColorModifiers, shade: scale toward black
ApplyShade(rgb, modifiers) ==
    IF Has(modifiers, "shade")
    THEN [i \in 1..3 |-> QRound(Q(rgb[i] * modifiers.shade, 100000))]
    ELSE rgb

\* step 2, tint: mix toward white
ApplyTint(rgb, modifiers) ==
    IF Has(modifiers, "tint")
    THEN [i \in 1..3 |-> QRound(QAdd(QInt(rgb[i]), Q((255 - rgb[i]) * modifiers.tint, 100000)))]
    ELSE rgb

\* step 4, hueMod: h = (h * hueMod / 100000) % 360
ApplyHueMod(h, modifiers) ==
    IF Has(modifiers, "hueMod")
    THEN QRem(QMul(h, Q(modifiers.hueMod, 100000)), QInt(360))
    ELSE h

\* step 4, hueOff: h = ((h + hueOff / 60000) % 360 + 360) % 360
ApplyHueOff(h, modifiers) ==
    IF Has(modifiers, "hueOff")
    THEN QRem(QAdd(QRem(QAdd(h, Q(modifiers.hueOff, 60000)), QInt(360)), QInt(360)), QInt(360))
    ELSE h

\* step 5, satMod
ApplySatMod(s, modifiers) ==
    IF Has(modifiers, "satMod") THEN Clamp01(QMul(s, Q(modifiers.satMod, 100000))) ELSE s

\* step 5, satOff
ApplySatOff(s, modifiers) ==
    IF Has(modifiers, "satOff") THEN Clamp01(QAdd(s, Q(modifiers.satOff, 100000))) ELSE s

\* step 6, lumMod
ApplyLumMod(l, modifiers) ==
    IF Has(modifiers, "lumMod") THEN QMul(l, Q(modifiers.lumMod, 100000)) ELSE l

\* step 6, lumOff
ApplyLumOff(l, modifiers) ==
    IF Has(modifiers, "lumOff") THEN QAdd(l, Q(modifiers.lumOff, 100000)) ELSE l

\* steps 4-8 on the HSL triple: adjust, clamp lightness, back to RGB
ApplyHslModifiers(hsl, modifiers) ==
    hslToRgb(ApplyHueOff(ApplyHueMod(hsl[1], modifiers), modifiers),
             ApplySatOff(ApplySatMod(hsl[2], modifiers), modifiers),
             Clamp01(ApplyLumOff(ApplyLumMod(hsl[3], modifiers), modifiers)))

RgbTripleToHsl(rgb) == rgbToHsl(rgb[1], rgb[2], rgb[3])
RgbTripleToHex(rgb) == rgbToHex(rgb[1], rgb[2], rgb[3])

\* fixed order: shade, tint, to HSL, hue, saturation, luminance, clamp, to RGB
applyColorModifiers(hex, modifiers) ==
    RgbTripleToHex(
        ApplyHslModifiers(
            RgbTripleToHsl(ApplyTint(ApplyShade(hexToRgb(hex), modifiers), modifiers)),
            modifiers))

----------------------------------------------------------------------------
(* colors.js: the colour resolver *)

PRESET_COLORS ==
    [aliceBlue |-> <<"F","0","F","8","F","F">>,
       antiqueWhite |-> <<"F","A","E","B","D","7">>,
       aqua |-> <<"0","0","F","F","F","F">>,
       aquamarine |-> <<"7","F","F","F","D","4">>,
       azure |-> <<"F","0","F","F","F","F">>,
       beige |-> <<"F","5","F","5","D","C">>,
       bisque |-> <<"F","F","E","4","C","4">>,
       black |-> <<"0","0","0","0","0","0">>,
       blanchedAlmond |-> <<"F","F","E","B","C","D">>,
       blue |-> <<"0","0","0","0","F","F">>,
       blueViolet |-> <<"8","A","2","B","E","2">>,
       brown |-> <<"A","5","2","A","2","A">>,
       burlyWood |-> <<"D","E","B","8","8","7">>,
       cadetBlue |-> <<"5","F","9","E","A","0">>,
       chartreuse |-> <<"7","F","F","F","0","0">>,
       chocolate |-> <<"D","2","6","9","1","E">>,
       coral |-> <<"F","F","7","F","5","0">>,
       cornflowerBlue |-> <<"6","4","9","5","E","D">>,
       cornsilk |-> <<"F","F","F","8","D","C">>,
       crimson |-> <<"D","C","1","4","3","C">>,
       cyan |-> <<"0","0","F","F","F","F">>,
       dkBlue |-> <<"0","0","0","0","8","B">>,
       dkCyan |-> <<"0","0","8","B","8","B">>,
       dkGoldenrod |-> <<"B","8","8","6","0","B">>,
       dkGray |-> <<"A","9","A","9","A","9">>,
       dkGreen |-> <<"0","0","6","4","0","0">>,
       dkKhaki |-> <<"B","D","B","7","6","B">>,
       dkMagenta |-> <<"8","B","0","0","8","B">>,
       dkOliveGreen |-> <<"5","5","6","B","2","F">>,
       dkOrange |-> <<"F","F","8","C","0","0">>,
       dkOrchid |-> <<"9","9","3","2","C","C">>,
       dkRed |-> <<"8","B","0","0","0","0">>,
       dkSalmon |-> <<"E","9","9","6","7","A">>,
       dkSeaGreen |-> <<"8","F","B","C","8","F">>,
       dkSlateBlue |-> <<"4","8","3","D","8","B">>,
       dkSlateGray |-> <<"2","F","4","F","4","F">>,
       dkTurquoise |-> <<"0","0","C","E","D","1">>,
       dkViolet |-> <<"9","4","0","0","D","3">>,
       deepPink |-> <<"F","F","1","4","9","3">>,
       deepSkyBlue |-> <<"0","0","B","F","F","F">>,
       dimGray |-> <<"6","9","6","9","6","9">>,
       dodgerBlue |-> <<"1","E","9","0","F","F">>,
       firebrick |-> <<"B","2","2","2","2","2">>,
       floralWhite |-> <<"F","F","F","A","F","0">>,
       forestGreen |-> <<"2","2","8","B","2","2">>,
       fuchsia |-> <<"F","F","0","0","F","F">>,
       gainsboro |-> <<"D","C","D","C","D","C">>,
       ghostWhite |-> <<"F","8","F","8","F","F">>,
       gold |-> <<"F","F","D","7","0","0">>,
       goldenrod |-> <<"D","A","A","5","2","0">>,
       gray |-> <<"8","0","8","0","8","0">>,
       green |-> <<"0","0","8","0","0","0">>,
       greenYellow |-> <<"A","D","F","F","2","F">>,
       honeydew |-> <<"F","0","F","F","F","0">>,
       hotPink |-> <<"F","F","6","9","B","4">>,
       indianRed |-> <<"C","D","5","C","5","C">>,
       indigo |-> <<"4","B","0","0","8","2">>,
       ivory |-> <<"F","F","F","F","F","0">>,
       khaki |-> <<"F","0","E","6","8","C">>,
       lavender |-> <<"E","6","E","6","F","A">>,
       lavenderBlush |-> <<"F","F","F","0","F","5">>,
       lawnGreen |-> <<"7","C","F","C","0","0">>,
       lemonChiffon |-> <<"F","F","F","A","C","D">>,
       ltBlue |-> <<"A","D","D","8","E","6">>,
       ltCoral |-> <<"F","0","8","0","8","0">>,
       ltCyan |-> <<"E","0","F","F","F","F">>,
       ltGoldenrodYellow |-> <<"F","A","F","A","D","2">>,
       ltGray |-> <<"D","3","D","3","D","3">>,
       ltGreen |-> <<"9","0","E","E","9","0">>,
       ltPink |-> <<"F","F","B","6","C","1">>,
       ltSalmon |-> <<"F","F","A","0","7","A">>,
       ltSeaGreen |-> <<"2","0","B","2","A","A">>,
       ltSkyBlue |-> <<"8","7","C","E","F","A">>,
       ltSlateGray |-> <<"7","7","8","8","9","9">>,
       ltSteelBlue |-> <<"B","0","C","4","D","E">>,
       ltYellow |-> <<"F","F","F","F","E","0">>,
       lime |-> <<"0","0","F","F","0","0">>,
       limeGreen |-> <<"3","2","C","D","3","2">>,
       linen |-> <<"F","A","F","0","E","6">>,
       magenta |-> <<"F","F","0","0","F","F">>,
       maroon |-> <<"8","0","0","0","0","0">>,
       medAquamarine |-> <<"6","6","C","D","A","A">>,
       medBlue |-> <<"0","0","0","0","C","D">>,
       medOrchid |-> <<"B","A","5","5","D","3">>,
       medPurple |-> <<"9","3","7","0","D","B">>,
       medSeaGreen |-> <<"3","C","B","3","7","1">>,
       medSlateBlue |-> <<"7","B","6","8","E","E">>,
       medSpringGreen |-> <<"0","0","F","A","9","A">>,
       medTurquoise |-> <<"4","8","D","1","C","C">>,
       medVioletRed |-> <<"C","7","1","5","8","5">>,
       midnightBlue |-> <<"1","9","1","9","7","0">>,
       mintCream |-> <<"F","5","F","F","F","A">>,
       mistyRose |-> <<"F","F","E","4","E","1">>,
       moccasin |-> <<"F","F","E","4","B","5">>,
       navajoWhite |-> <<"F","F","D","E","A","D">>,
       navy |-> <<"0","0","0","0","8","0">>,
       oldLace |-> <<"F","D","F","5","E","6">>,
       olive |-> <<"8","0","8","0","0","0">>,
       oliveDrab |-> <<"6","B","8","E","2","3">>,
       orange |-> <<"F","F","A","5","0","0">>,
       orangeRed |-> <<"F","F","4","5","0","0">>,
       orchid |-> <<"D","A","7","0","D","6">>,
       paleGoldenrod |-> <<"E","E","E","8","A","A">>,
       paleGreen |-> <<"9","8","F","B","9","8">>,
       paleTurquoise |-> <<"A","F","E","E","E","E">>,
       paleVioletRed |-> <<"D","B","7","0","9","3">>,
       papayaWhip |-> <<"F","F","E","F","D","5">>,
       peachPuff |-> <<"F","F","D","A","B","9">>,
       peru |-> <<"C","D","8","5","3","F">>,
       pink |-> <<"F","F","C","0","C","B">>,
       plum |-> <<"D","D","A","0","D","D">>,
       powderBlue |-> <<"B","0","E","0","E","6">>,
       purple |-> <<"8","0","0","0","8","0">>,
       red |-> <<"F","F","0","0","0","0">>,
       rosyBrown |-> <<"B","C","8","F","8","F">>,
       royalBlue |-> <<"4","1","6","9","E","1">>,
       saddleBrown |-> <<"8","B","4","5","1","3">>,
       salmon |-> <<"F","A","8","0","7","2">>,
       sandyBrown |-> <<"F","4","A","4","6","0">>,
       seaGreen |-> <<"2","E","8","B","5","7">>,
       seaShell |-> <<"F","F","F","5","E","E">>,
       sienna |-> <<"A","0","5","2","2","D">>,
       silver |-> <<"C","0","C","0","C","0">>,
       skyBlue |-> <<"8","7","C","E","E","B">>,
       slateBlue |-> <<"6","A","5","A","C","D">>,
       slateGray |-> <<"7","0","8","0","9","0">>,
       snow |-> <<"F","F","F","A","F","A">>,
       springGreen |-> <<"0","0","F","F","7","F">>,
       steelBlue |-> <<"4","6","8","2","B","4">>,
       tan |-> <<"D","2","B","4","8","C">>,
       teal |-> <<"0","0","8","0","8","0">>,
       thistle |-> <<"D","8","B","F","D","8">>,
       tomato |-> <<"F","F","6","3","4","7">>,
       turquoise |-> <<"4","0","E","0","D","0">>,
       violet |-> <<"E","E","8","2","E","E">>,
       wheat |-> <<"F","5","D","E","B","3">>,
       white |-> <<"F","F","F","F","F","F">>,
       whiteSmoke |-> <<"F","5","F","5","F","5">>,
       yellow |-> <<"F","F","F","F","0","0">>,
       yellowGreen |-> <<"9","A","C","D","3","2">>]

BLACK == <<"0","0","0","0","0","0">>

DEFAULT_CLR_MAP ==
    [bg1 |-> "lt1", tx1 |-> "dk1", bg2 |-> "lt2", tx2 |-> "dk2",
     accent1 |-> "accent1", accent2 |-> "accent2", accent3 |-> "accent3",
     accent4 |-> "accent4", accent5 |-> "accent5", accent6 |-> "accent6",
     hlink |-> "hlink", folHlink |-> "folHlink"]

ColorModifierNames ==
    {"tint", "shade", "hueMod", "hueOff", "satMod", "satOff", "lumMod", "lumOff"}
ModifierNames == ColorModifierNames \cup {"alpha"}

\* the child element name of a modifier
ModTag(m) == "a:" \o m

\* Number(el[child]['@_val']) for every modifier child the element has
extractModifiers(el) ==
    [m \in {n \in ModifierNames : Has(el, ModTag(n))} |-> el[ModTag(m)]["@_val"]]

hasModifiers(mods) == \E m \in ColorModifierNames : Has(mods, m)

\* Math.round(100 - alpha / 1000)
AlphaToTransparency(alpha) == QRound(QSub(QInt(100), Q(alpha, 1000)))

\* { color } plus transparency when the modifiers carry alpha
WithAlpha(hex, modifiers) ==
    IF Has(modifiers, "alpha")
    THEN [color |-> hex, transparency |-> AlphaToTransparency(modifiers.alpha)]
    ELSE [color |-> hex]

\* the closure state: themeColors and the map in force (clrMap || DEFAULT_CLR_MAP)
createColorResolver(themeColors, clrMap) ==
    [themeColors |-> themeColors,
     map |-> IF clrMap = Null THEN DEFAULT_CLR_MAP ELSE clrMap]

\* resolveSchemeColor without the retry under the original name
resolveSchemeColor_NoRetry(R, schemeName) ==
    LET mapped == NameOr(R.map, schemeName, schemeName)
    IN  HexOr(R.themeColors, mapped, BLACK)

resolveSchemeColor(R, schemeName) ==
    LET mapped == NameOr(R.map, schemeName, schemeName)
        hex    == HexOr(R.themeColors, mapped, <<>>)
    IN  IF hex = <<>>
        THEN HexOr(R.themeColors, schemeName, BLACK)
        ELSE hex

resolveSrgbClr(el) ==
    LET hex0      == HexOr(el, "@_val", BLACK)
        modifiers == extractModifiers(el)
        hex       == IF hasModifiers(modifiers) THEN applyColorModifiers(hex0, modifiers) ELSE hex0
    IN  WithAlpha(hex, modifiers)

resolveSchemeClrElement(R, el) ==
    LET schemeName == NameOr(el, "@_val", "")
        hex0       == resolveSchemeColor(R, schemeName)
        modifiers  == extractModifiers(el)
        hex        == IF hasModifiers(modifiers) THEN applyColorModifiers(hex0, modifiers) ELSE hex0
    IN  IF schemeName = "phClr" THEN [color |-> BLACK]
        ELSE WithAlpha(hex, modifiers)

resolvePrstClr(el) ==
    LET name      == NameOr(el, "@_val", "")
        hex0      == HexOr(PRESET_COLORS, name, BLACK)
        modifiers == extractModifiers(el)
        hex       == IF hasModifiers(modifiers) THEN applyColorModifiers(hex0, modifiers) ELSE hex0
    IN  WithAlpha(hex, modifiers)

resolve(R, colorElement) ==
    IF colorElement = Null THEN Null
    ELSE IF Has(colorElement, "a:srgbClr") THEN resolveSrgbClr(colorElement["a:srgbClr"])
    ELSE IF Has(colorElement, "a:schemeClr") THEN resolveSchemeClrElement(R, colorElement["a:schemeClr"])
    ELSE IF Has(colorElement, "a:sysClr")
         THEN [color |-> HexOr(colorElement["a:sysClr"], "@_lastClr", BLACK)]
    ELSE IF Has(colorElement, "a:prstClr") THEN resolvePrstClr(colorElement["a:prstClr"])
    ELSE Null

----------------------------------------------------------------------------
(* Inputs of the colour resolver *)

\* at most this many modifier children on one colour element
MaxMods == 2

Hex(a, b, c, d, e, f) == <<a, b, c, d, e, f>>

ThemeFull ==
    [dk1 |-> BLACK, lt1 |-> Hex("F","F","F","F","F","F"),
     dk2 |-> Hex("3","3","6","6","9","9"), lt2 |-> Hex("C","C","C","C","C","C"),
     accent1 |-> Hex("4","4","7","2","C","4"), accent2 |-> Hex("F","F","6","6","0","0")]

\* extractSchemeColors skips the slots the theme does not define
ThemeSparse ==
    [dk1 |-> Hex("3","3","3","3","3","3"), accent1 |-> Hex("0","0","9","9","3","3")]

Themes == {ThemeFull, ThemeSparse}

SwapClrMap ==
    [bg1 |-> "dk1", tx1 |-> "lt1", bg2 |-> "dk2", tx2 |-> "lt2",
     accent1 |-> "accent2", accent2 |-> "accent1"]

\* Null: createColorResolver called without a colour map
ClrMaps == {Null, <<>>, DEFAULT_CLR_MAP, SwapClrMap}

SchemeNames == {"tx1", "bg1", "dk1", "accent1", "accent2", "phClr", "nope"}

ColorModVals == {40000, 100000}
AlphaVals == {0, 50000, 100000}

ModVals(m) == IF m = "alpha" THEN AlphaVals ELSE ColorModVals

\* a modifier child element <a:xxx val="v"/>
ValEl(v) == [k \in {"@_val"} |-> v]

\* the modifier children of one colour element
ModifierChildren ==
    UNION { { f \in [{ModTag(m) : m \in S} -> {ValEl(v) : v \in ColorModVals \cup AlphaVals}] :
                \A m \in S : f[ModTag(m)]["@_val"] \in ModVals(m) } :
            S \in {T \in SUBSET ModifierNames : Cardinality(T) <= MaxMods} }

SrgbHeads == {<<>>, ValEl(Hex("F","F","0","0","0","0")), ValEl(Hex("3","3","6","6","9","9"))}
SchemeHeads == {ValEl(n) : n \in {"tx1", "accent1", "accent2", "phClr", "nope"}}
SysHeads == {[k \in {"@_val"} |-> "windowText"],
             [k \in {"@_val", "@_lastClr"} |->
                 IF k = "@_val" THEN "window" ELSE Hex("F","F","F","F","F","F")]}
PrstHeads == {<<>>, ValEl("red"), ValEl("dkOliveGreen"), ValEl("nope")}

\* a colour container with one colour-kind child
Wrap(tag, el) == [k \in {tag} |-> el]

ColorElements ==
    {Null, <<>>}
    \cup {Wrap("a:srgbClr", h @@ m) : h \in SrgbHeads \ {<<>>}, m \in ModifierChildren}
    \cup {Wrap("a:srgbClr", m) : m \in ModifierChildren \ {<<>>}}
    \cup {Wrap("a:schemeClr", h @@ m) : h \in SchemeHeads, m \in ModifierChildren}
    \cup {Wrap("a:sysClr", h @@ m) : h \in SysHeads, m \in ModifierChildren}
    \cup {Wrap("a:prstClr", h @@ m) : h \in PrstHeads \ {<<>>}, m \in ModifierChildren}
    \cup {Wrap("a:prstClr", m) : m \in ModifierChildren \ {<<>>}}

----------------------------------------------------------------------------
(* The colour resolver as a state machine: construction, then calls *)

InitColor ==
    /\ resolver \in {createColorResolver(t, m) : t \in Themes, m \in ClrMaps}
    /\ op = "idle"
    /\ arg = <<>>
    /\ ret = <<>>
    /\ NoRun

\* the caller invokes one operation at a time and takes its result
Resolve(colorElement) ==
    /\ op = "idle"
    /\ op' = "resolve"
    /\ arg' = colorElement
    /\ ret' = resolve(resolver, colorElement)
    /\ UNCHANGED <<resolver, outputDir, step>>

ResolveSchemeColor(schemeName) ==
    /\ op = "idle"
    /\ op' = "resolveSchemeColor"
    /\ arg' = [schemeName |-> schemeName]
    /\ ret' = [hex |-> resolveSchemeColor(resolver, schemeName)]
    /\ UNCHANGED <<resolver, outputDir, step>>

\* the caller has consumed the result
Done ==
    /\ op # "idle"
    /\ step = "exit"
    /\ op' = "idle"
    /\ arg' = <<>>
    /\ ret' = <<>>
    /\ UNCHANGED <<resolver, outputDir, step>>

NextColor ==
    \/ \E colorElement \in ColorElements : Resolve(colorElement)
    \/ \E schemeName \in SchemeNames : ResolveSchemeColor(schemeName)
    \/ Done

SpecColor == InitColor /\ [][NextColor]_vars

----------------------------------------------------------------------------
(* Properties of the colour resolver *)

\* the element of the colour kind that resolve() dispatches on
MatchedTag(colorElement) ==
    IF Has(colorElement, "a:srgbClr") THEN "a:srgbClr"
    ELSE IF Has(colorElement, "a:schemeClr") THEN "a:schemeClr"
    ELSE IF Has(colorElement, "a:sysClr") THEN "a:sysClr"
    ELSE "a:prstClr"

MatchedElement(colorElement) == colorElement[MatchedTag(colorElement)]

\* the colour of the matched kind before any modifier
BaseColor(R, colorElement) ==
    LET tag == MatchedTag(colorElement)
        el  == colorElement[tag]
    IN  IF tag = "a:srgbClr" THEN HexOr(el, "@_val", BLACK)
        ELSE IF tag = "a:schemeClr"
             THEN IF NameOr(el, "@_val", "") = "phClr" THEN BLACK
                  ELSE resolveSchemeColor(R, NameOr(el, "@_val", ""))
        ELSE IF tag = "a:sysClr" THEN HexOr(el, "@_lastClr", BLACK)
        ELSE HexOr(PRESET_COLORS, NameOr(el, "@_val", ""), BLACK)

HasColorModifierChild(el) == \E m \in ColorModifierNames : Has(el, ModTag(m))

\* C1: whatever colour kind matched, when the matched element carries a
\* colour-altering modifier child the returned color is applyColorModifiers of
\* that kind's base colour with the element's modifiers.
C1_ModifiersAppliedToEveryKind ==
    (op = "resolve" /\ ret # Null /\ HasColorModifierChild(MatchedElement(arg)))
        => ret.color = applyColorModifiers(BaseColor(resolver, arg),
                                           extractModifiers(MatchedElement(arg)))

\* C2: a non-null result of resolve() has a transparency key exactly when the
\* matched element carries an alpha child, and then it is round(100 - alpha/1000).
C2_TransparencyIffAlpha ==
    (op = "resolve" /\ ret # Null)
        => LET el == MatchedElement(arg)
           IN  /\ Has(ret, "transparency") <=> Has(el, "a:alpha")
               /\ Has(el, "a:alpha")
                      => ret.transparency = (100500 - el["a:alpha"]["@_val"]) \div 1000

\* C3: resolveSchemeColor returns the theme colour of the slot the map gives
\* for the name (of the name itself without a map entry) when the theme has
\* that slot, otherwise the theme colour under the original name, otherwise
\* 000000.
C3_SchemeColorFallbackChain ==
    op = "resolveSchemeColor"
        => LET name  == arg.schemeName
               slot  == IF name \in DOMAIN resolver.map THEN resolver.map[name] ELSE name
               theme == resolver.themeColors
           IN  ret.hex = IF slot \in DOMAIN theme THEN theme[slot]
                         ELSE IF name \in DOMAIN theme THEN theme[name]
                         ELSE BLACK

\* the mapped slot is missing from the theme and the original name is found
C3_Witness ==
    /\ op = "resolveSchemeColor"
    /\ arg.schemeName \in DOMAIN resolver.map
    /\ resolver.map[arg.schemeName] \notin DOMAIN resolver.themeColors
    /\ arg.schemeName \in DOMAIN resolver.themeColors
    /\ ret.hex = resolver.themeColors[arg.schemeName]
    /\ ret.hex # BLACK

----------------------------------------------------------------------------
(* zip.js: what the XML reader makes of an element's children.  The reader  *)
(* (fast-xml-parser, attributes kept with the '@_' prefix) groups children  *)
(* by tag name: one child of a tag becomes that child's value, several      *)
(* become an array in document order, and the order across tags is gone.    *)
(* An element without attributes and children becomes the empty string.     *)
(* A document-side child is [tag |-> name, value |-> parsed element].       *)

\* a JavaScript array, kept apart from objects
Arr(items) == [array |-> items]
IsArray(v) == Has(v, "array")

\* the parsed value of an element with no attributes and no children: ''
EmptyElement == <<>>

\* if (o[k]) for an element-valued key
Truthy(o, k) == Has(o, k) /\ o[k] # EmptyElement

\* Array.isArray(x) ? x : [x]
ToItems(v) == IF IsArray(v) THEN v.array ELSE <<v>>

RECURSIVE ValuesOfTag(_, _)
ValuesOfTag(children, tag) ==
    IF children = <<>> THEN <<>>
    ELSE IF Head(children).tag = tag
         THEN <<Head(children).value>> \o ValuesOfTag(Tail(children), tag)
         ELSE ValuesOfTag(Tail(children), tag)

GroupedValue(values) == IF Len(values) = 1 THEN values[1] ELSE Arr(values)

\* xmlParser.parse on the children of one element
ParseChildren(children) ==
    [tag \in {children[i].tag : i \in 1..Len(children)} |->
        GroupedValue(ValuesOfTag(children, tag))]

----------------------------------------------------------------------------
(* text.js: runs of a paragraph *)

\* run properties; only the keys the source leaves defined are present
\* (color is the one carried here)
\* resolved?.color
ColorOf(resolved) == [k \in {"color"} \cap DOMAIN resolved |-> resolved.color]

extractRunProps(rPr, colorResolver) ==
    IF Truthy(rPr, "a:solidFill") /\ colorResolver # Null
    THEN ColorOf(resolve(colorResolver, rPr["a:solidFill"]))
    ELSE <<>>

\* r['a:t'] != null ? String(r['a:t']) : ''
TextOf(el) == IF Has(el, "a:t") THEN el["a:t"] ELSE ""

\* r['a:rPr'] || {}
RPrOf(el) == IF Truthy(el, "a:rPr") THEN el["a:rPr"] ELSE <<>>

\* { text, ...props }
TextRun(r, colorResolver) ==
    Spread([text |-> TextOf(r)], extractRunProps(RPrOf(r), colorResolver))

\* { text, ...props, isField: true, fieldType: fld['@_type'] || '' }
FieldRun(fld, colorResolver) ==
    Spread(Spread([text |-> TextOf(fld)], extractRunProps(RPrOf(fld), colorResolver)),
           [isField |-> TRUE, fieldType |-> NameOr(fld, "@_type", "")])

BreakRun == [text |-> "\n", isBreak |-> TRUE]

RunsOfItems(items, colorResolver) ==
    [i \in 1..Len(items) |-> TextRun(items[i], colorResolver)]

FieldsOfItems(items, colorResolver) ==
    [i \in 1..Len(items) |-> FieldRun(items[i], colorResolver)]

\* contentRuns before the breaks are placed: every a:r, then every a:fld
ContentRuns(p, colorResolver) ==
    (IF Truthy(p, "a:r") THEN RunsOfItems(ToItems(p["a:r"]), colorResolver) ELSE <<>>)
    \o (IF Truthy(p, "a:fld") THEN FieldsOfItems(ToItems(p["a:fld"]), colorResolver) ELSE <<>>)

\* the interleaving loop, i counting from 0 as in the source
RECURSIVE InterleaveFrom(_, _, _)
InterleaveFrom(contentRuns, breakCount, i) ==
    IF i >= Len(contentRuns) THEN <<>>
    ELSE <<contentRuns[i + 1]>>
         \o (IF i < breakCount THEN <<BreakRun>> ELSE <<>>)
         \o InterleaveFrom(contentRuns, breakCount, i + 1)

PlaceBreaksCounted(contentRuns, breakCount) ==
    IF breakCount > 0 /\ Len(contentRuns) > 1 /\ breakCount <= Len(contentRuns) - 1
    THEN InterleaveFrom(contentRuns, breakCount, 0)
    ELSE contentRuns \o [i \in 1..breakCount |-> BreakRun]

\* the a:br part of extractRuns
PlaceBreaks(contentRuns, p) ==
    IF Truthy(p, "a:br")
    THEN PlaceBreaksCounted(contentRuns, Len(ToItems(p["a:br"])))
    ELSE contentRuns

extractRuns(p, colorResolver) == PlaceBreaks(ContentRuns(p, colorResolver), p)

extractParagraph(p, colorResolver) == [runs |-> extractRuns(p, colorResolver)]

ParagraphsOfItems(items, colorResolver) ==
    [i \in 1..Len(items) |-> extractParagraph(items[i], colorResolver)]

extractParagraphs(txBody, colorResolver) ==
    IF Truthy(txBody, "a:p")
    THEN ParagraphsOfItems(ToItems(txBody["a:p"]), colorResolver)
    ELSE <<>>

\* the paragraphs of a text body with the runs of each
extractTextProps(txBody, colorResolver) ==
    IF txBody = EmptyElement THEN [paragraphs |-> <<>>]
    ELSE [paragraphs |-> extractParagraphs(txBody, colorResolver)]

----------------------------------------------------------------------------
(* text bodies the extractor is run on: one paragraph of up to MaxChildren  *)
(* run, field and break children in any document order                      *)

MaxChildren == 4

ChildKinds == {"r", "rPlain", "fld", "br", "brBare"}

SchemeFill(name) == Wrap("a:solidFill", Wrap("a:schemeClr", ValEl(name)))

\* the i-th child of a paragraph, its text naming its place in the document
ChildElement(kind, i) ==
    CASE kind = "r" ->
           [tag |-> "a:r",
            value |-> ("a:rPr" :> SchemeFill("tx1")) @@ ("a:t" :> ("t" \o ToString(i)))]
      [] kind = "rPlain" ->
           [tag |-> "a:r", value |-> ("a:t" :> ("t" \o ToString(i)))]
      [] kind = "fld" ->
           [tag |-> "a:fld",
            value |-> ("@_type" :> "slidenum") @@ ("a:t" :> ("t" \o ToString(i)))]
      [] kind = "br" ->
           [tag |-> "a:br", value |-> ("a:rPr" :> EmptyElement)]
      [] kind = "brBare" ->
           [tag |-> "a:br", value |-> EmptyElement]

ParagraphDocs ==
    UNION { { [i \in 1..n |-> ChildElement(kinds[i], i)] : kinds \in [1..n -> ChildKinds] } :
            n \in 0..MaxChildren }

\* <a:txBody><a:bodyPr/><a:p>children</a:p></a:txBody> as the reader returns it
ParseTxBody(children) ==
    ParseChildren(<<[tag |-> "a:bodyPr", value |-> EmptyElement],
                    [tag |-> "a:p", value |-> ParseChildren(children)]>>)

TextResolvers ==
    {Null, createColorResolver(ThemeFull, DEFAULT_CLR_MAP), createColorResolver(ThemeFull, SwapClrMap)}

InitText ==
    /\ resolver \in TextResolvers
    /\ op = "idle"
    /\ arg = <<>>
    /\ ret = <<>>
    /\ NoRun

ExtractTextProps(children) ==
    /\ op = "idle"
    /\ op' = "extractTextProps"
    /\ arg' = [children |-> children]
    /\ ret' = extractTextProps(ParseTxBody(children), resolver)
    /\ UNCHANGED <<resolver, outputDir, step>>

NextText ==
    \/ /\ op = "idle"
       /\ \E children \in ParagraphDocs : ExtractTextProps(children)
    \/ Done

SpecText == InitText /\ [][NextText]_vars

----------------------------------------------------------------------------
(* properties of extractRuns *)

IsBreakChild(c) == c.tag = "a:br"
IsBreakRun(run) == Has(run, "isBreak")
IsContentChild(c) == c.tag \in {"a:r", "a:fld"}
IsContentRun(run) == ~Has(run, "isBreak")

\* the runs returned for the paragraph of the call
ReturnedRuns == IF ret.paragraphs = <<>> THEN <<>> ELSE ret.paragraphs[1].runs

NumBreaks == Len(SelectSeq(arg.children, IsBreakChild))
NumRuns == Len(SelectSeq(arg.children, IsContentChild))

TextsOf(s) == [i \in 1..Len(s) |-> s[i].text]
DocTexts == [i \in 1..NumRuns |-> SelectSeq(arg.children, IsContentChild)[i].value["a:t"]]
ReturnedContent == SelectSeq(ReturnedRuns, IsContentRun)

Alternated(runs) ==
    [k \in 1..(2 * Len(runs) - 1) |-> IF k % 2 = 1 THEN runs[(k + 1) \div 2] ELSE BreakRun]

\* C9: with B >= 1 breaks and R text/field runs, break i sits directly
\* between run i and run i+1 exactly when B = R - 1; in every other case the
\* runs come first and the B breaks trail; either way every run and every
\* break of the paragraph is returned exactly once.
C9_BreakPlacement ==
    (op = "extractTextProps" /\ NumBreaks >= 1) =>
        /\ Len(SelectSeq(ReturnedRuns, IsBreakRun)) = NumBreaks
        /\ Len(ReturnedContent) = NumRuns
        /\ {ReturnedContent[i].text : i \in 1..Len(ReturnedContent)}
             = {DocTexts[i] : i \in 1..NumRuns}
        /\ IF NumBreaks = NumRuns - 1
           THEN ReturnedRuns = Alternated(ReturnedContent)
           ELSE ReturnedRuns = ReturnedContent \o [i \in 1..NumBreaks |-> BreakRun]

\* C10: the text and field runs returned for a paragraph are in the order of
\* their elements in the document.
C10_RunsInDocumentOrder ==
    op = "extractTextProps" => TextsOf(ReturnedContent) = DocTexts

----------------------------------------------------------------------------
(* units.js and utils.js *)

\* Math.round((emu / 914400) * 10000) / 10000
emuToInches(emu) == Q(QRound(QMul(Q(emu, 914400), QInt(10000))), 10000)

\* o[k], undefined read as the falsy empty value
Get(o, k) == IF Has(o, k) THEN o[k] ELSE EmptyElement

\* Array.isArray(el) ? el : el ? [el] : []
toArray(el) == IF IsArray(el) THEN el.array ELSE IF el # EmptyElement THEN <<el>> ELSE <<>>

\* Number(o[k] || 0) of a numeric attribute
NumberOr0(o, k) == IF Has(o, k) THEN o[k] ELSE 0

PositionOf(off, ext) ==
    [x |-> IF off # EmptyElement THEN emuToInches(NumberOr0(off, "@_x")) ELSE QInt(0),
     y |-> IF off # EmptyElement THEN emuToInches(NumberOr0(off, "@_y")) ELSE QInt(0),
     w |-> IF ext # EmptyElement THEN emuToInches(NumberOr0(ext, "@_cx")) ELSE QInt(0),
     h |-> IF ext # EmptyElement THEN emuToInches(NumberOr0(ext, "@_cy")) ELSE QInt(0)]

extractPosition(xfrm) ==
    IF xfrm = EmptyElement THEN Null
    ELSE IF Get(xfrm, "a:off") = EmptyElement /\ Get(xfrm, "a:ext") = EmptyElement THEN Null
    ELSE PositionOf(Get(xfrm, "a:off"), Get(xfrm, "a:ext"))

extractBackground(bg) ==
    IF bg = EmptyElement THEN Null
    ELSE IF Truthy(bg, "p:bgPr") THEN bg["p:bgPr"]
    ELSE IF Truthy(bg, "p:bgRef") THEN [bgRef |-> bg["p:bgRef"]]
    ELSE Null

----------------------------------------------------------------------------
(* layout.js *)

\* the attribute names a colour-map element can carry, and one foreign name
AttributeNames ==
    {"bg1", "tx1", "bg2", "tx2", "accent1", "accent2", "accent3", "accent4",
     "accent5", "accent6", "hlink", "folHlink", "custom"}

\* key.startsWith('@_')
IsAttributeKey(key) == \E n \in AttributeNames : key = "@_" \o n

\* key.slice(2)
StripPrefix(key) == CHOOSE n \in AttributeNames : key = "@_" \o n

\* AttributesOf without the startsWith('@_') filter and the slice
AttributesOf_NoFilter(el) == [k \in DOMAIN el |-> el[k]]

AttributesOf(el) ==
    [n \in {StripPrefix(key) : key \in {k \in DOMAIN el : IsAttributeKey(k)}} |-> el["@_" \o n]]

NonEmptyOrNull(map) == IF DOMAIN map # {} THEN map ELSE Null

extractClrMapOverride(clrMapOvr) ==
    IF clrMapOvr = EmptyElement THEN Null
    ELSE IF Has(clrMapOvr, "a:masterClrMapping") THEN Null
    ELSE IF ~Truthy(clrMapOvr, "a:overrideClrMapping") THEN Null
    ELSE NonEmptyOrNull(AttributesOf(clrMapOvr["a:overrideClrMapping"]))

FillTypes == <<"a:solidFill", "a:gradFill", "a:blipFill", "a:pattFill", "a:noFill">>
FillTypeNames == <<"solidFill", "gradFill", "blipFill", "pattFill", "noFill">>

\* the first fill kind present, with its element
FillAt(spPr, i) == [type |-> FillTypeNames[i], element |-> spPr[FillTypes[i]]]

\* fill and line of p:spPr, unresolved
extractShapeProps(spPr) ==
    [fill |-> IF \E i \in 1..5 : Has(spPr, FillTypes[i])
              THEN FillAt(spPr, CHOOSE i \in 1..5 :
                                   /\ Has(spPr, FillTypes[i])
                                   /\ \A j \in 1..(i - 1) : ~Has(spPr, FillTypes[j]))
              ELSE Null,
     line |-> IF Truthy(spPr, "a:ln") THEN spPr["a:ln"] ELSE Null]

\* type: ph['@_type'] || undefined, idx: ph['@_idx'] != null ? ph['@_idx'] : undefined;
\* an undefined key is left out
PlaceholderOf(ph) ==
    (IF NameOr(ph, "@_type", "") # "" THEN [type |-> ph["@_type"]] ELSE <<>>)
    @@ (IF Has(ph, "@_idx") THEN [idx |-> ph["@_idx"]] ELSE <<>>)

extractPlaceholder(nvPr) ==
    IF nvPr = EmptyElement THEN Null
    ELSE IF ~Truthy(nvPr, "p:ph") THEN Null
    ELSE PlaceholderOf(nvPr["p:ph"])

\* `idx:${ph.idx}`
IdxKey(idx) == "idx:" \o idx

\* SelectMasterPh looking up the type key only
SelectMasterPh_TypeOnly(ph, masterDefaults) ==
    IF Has(ph, "type") /\ Has(masterDefaults, ph.type) THEN masterDefaults[ph.type] ELSE Null

\* (ph.type && masterDefaults[ph.type]) || (ph.idx != null && masterDefaults[`idx:${ph.idx}`]) || null
SelectMasterPh(ph, masterDefaults) ==
    IF Has(ph, "type") /\ Has(masterDefaults, ph.type) THEN masterDefaults[ph.type]
    ELSE IF Has(ph, "idx") /\ Has(masterDefaults, IdxKey(ph.idx)) THEN masterDefaults[IdxKey(ph.idx)]
    ELSE Null

InheritPosition(position, masterPh) ==
    IF masterPh # Null /\ masterPh.position # Null THEN masterPh.position ELSE position

InheritTextProps(textProps, masterPh) ==
    IF textProps = Null /\ masterPh # Null /\ masterPh.textProps # Null
    THEN masterPh.textProps
    ELSE textProps

\* PlaceholderData inheriting whether or not there is a local position
PlaceholderData_AlwaysInherit(ph, name, position, textProps, shapeProps, masterPh, masterDefaults) ==
    [isPlaceholder |-> TRUE,
     data |-> Spread(ph,
         [name |-> name,
          position |-> IF masterDefaults # Null THEN InheritPosition(position, masterPh) ELSE position,
          textProps |-> IF masterDefaults # Null THEN InheritTextProps(textProps, masterPh) ELSE textProps,
          shapeProps |-> shapeProps])]

\* the record of a placeholder shape; the inheritance block runs only for a
\* placeholder without a local position
PlaceholderData(ph, name, position, textProps, shapeProps, masterPh, masterDefaults) ==
    [isPlaceholder |-> TRUE,
     data |-> Spread(ph,
         [name |-> name,
          position |-> IF position = Null /\ masterDefaults # Null
                       THEN InheritPosition(position, masterPh) ELSE position,
          textProps |-> IF position = Null /\ masterDefaults # Null
                        THEN InheritTextProps(textProps, masterPh) ELSE textProps,
          shapeProps |-> shapeProps])]

StaticShapeData(name, position, textProps, shapeProps) ==
    [isPlaceholder |-> FALSE,
     data |-> [type |-> "shape", name |-> name, position |-> position,
               fill |-> shapeProps.fill, line |-> shapeProps.line, textProps |-> textProps]]

ShapeRecord(ph, name, position, textProps, shapeProps, masterDefaults) ==
    IF ph # Null
    THEN PlaceholderData(ph, name, position, textProps, shapeProps,
                         IF masterDefaults # Null THEN SelectMasterPh(ph, masterDefaults) ELSE Null,
                         masterDefaults)
    ELSE StaticShapeData(name, position, textProps, shapeProps)

\* sp['p:txBody'] through extractTextProps when the shape has a text body
LocalTextProps(sp, colorResolver) ==
    IF Truthy(sp, "p:txBody") THEN extractTextProps(sp["p:txBody"], colorResolver) ELSE Null

processShape(sp, colorResolver, masterDefaults) ==
    ShapeRecord(extractPlaceholder(Get(Get(sp, "p:nvSpPr"), "p:nvPr")),
                NameOr(Get(Get(sp, "p:nvSpPr"), "p:cNvPr"), "@_name", ""),
                extractPosition(Get(Get(sp, "p:spPr"), "a:xfrm")),
                LocalTextProps(sp, colorResolver),
                extractShapeProps(Get(sp, "p:spPr")),
                masterDefaults)

PictureRecord(ph, name, position, shapeProps, imageRef) ==
    IF ph # Null
    THEN [isPlaceholder |-> TRUE,
          data |-> Spread(Spread([type |-> "pic"], ph),
                          [name |-> name, position |-> position, textProps |-> Null,
                           shapeProps |-> shapeProps, imageRef |-> imageRef])]
    ELSE [isPlaceholder |-> FALSE,
          data |-> [type |-> "picture", name |-> name, position |-> position,
                    fill |-> shapeProps.fill, line |-> shapeProps.line,
                    textProps |-> Null, imageRef |-> imageRef]]

processPicture(pic) ==
    PictureRecord(extractPlaceholder(Get(Get(pic, "p:nvPicPr"), "p:nvPr")),
                  NameOr(Get(Get(pic, "p:nvPicPr"), "p:cNvPr"), "@_name", ""),
                  extractPosition(Get(Get(pic, "p:spPr"), "a:xfrm")),
                  extractShapeProps(Get(pic, "p:spPr")),
                  NameOr(Get(Get(pic, "p:blipFill"), "a:blip"), "@_r:embed", ""))

IsPlaceholderResult(result) == result.isPlaceholder
IsStaticResult(result) == ~result.isPlaceholder

DataOf(results) == [i \in 1..Len(results) |-> results[i].data]

ShapeResults(spElements, colorResolver, masterDefaults) ==
    [i \in 1..Len(spElements) |-> processShape(spElements[i], colorResolver, masterDefaults)]

PictureResults(picElements) == [i \in 1..Len(picElements) |-> processPicture(picElements[i])]

\* `Found ${n} ...` warnings for the shape kinds that are only counted
UnsupportedWarnings(spTree) ==
    (IF toArray(Get(spTree, "p:grpSp")) # <<>>
     THEN <<[kind |-> "grouped shape", count |-> Len(toArray(Get(spTree, "p:grpSp")))]>> ELSE <<>>)
    \o (IF toArray(Get(spTree, "p:cxnSp")) # <<>>
        THEN <<[kind |-> "connection shape", count |-> Len(toArray(Get(spTree, "p:cxnSp")))]>> ELSE <<>>)
    \o (IF toArray(Get(spTree, "p:graphicFrame")) # <<>>
        THEN <<[kind |-> "graphic frame", count |-> Len(toArray(Get(spTree, "p:graphicFrame")))]>>
        ELSE <<>>)

EmptyLayout ==
    [name |-> "", clrMapOverride |-> Null, background |-> Null,
     placeholders |-> <<>>, staticShapes |-> <<>>, warnings |-> <<>>]

\* the record parseSlideLayout returns; type is left out when undefined and
\* the relationships of the layout are not carried
LayoutRecord(layout, cSld, results, picResults) ==
    Spread(IF NameOr(layout, "@_type", "") # "" THEN [type |-> layout["@_type"]] ELSE <<>>,
        [name |-> NameOr(layout, "@_name", NameOr(cSld, "@_name", "")),
         showMasterSp |-> NameOr(layout, "@_showMasterSp", "") # "0",
         clrMapOverride |-> extractClrMapOverride(Get(layout, "p:clrMapOvr")),
         background |-> extractBackground(Get(cSld, "p:bg")),
         placeholders |-> DataOf(SelectSeq(results, IsPlaceholderResult))
                          \o DataOf(SelectSeq(picResults, IsPlaceholderResult)),
         staticShapes |-> DataOf(SelectSeq(results, IsStaticResult))
                          \o DataOf(SelectSeq(picResults, IsStaticResult)),
         warnings |-> UnsupportedWarnings(Get(cSld, "p:spTree"))])

ParseLayoutElement(layout, cSld, colorResolver, masterDefaults) ==
    LayoutRecord(layout, cSld,
                 ShapeResults(toArray(Get(Get(cSld, "p:spTree"), "p:sp")), colorResolver, masterDefaults),
                 PictureResults(toArray(Get(Get(cSld, "p:spTree"), "p:pic"))))

\* options is [colorResolver, masterDefaults], either of them Null when not given
parseSlideLayout(layoutXml, options) ==
    IF layoutXml = Null \/ ~Truthy(layoutXml, "p:sldLayout") THEN EmptyLayout
    ELSE ParseLayoutElement(layoutXml["p:sldLayout"], Get(layoutXml["p:sldLayout"], "p:cSld"),
                            options.colorResolver, options.masterDefaults)

----------------------------------------------------------------------------
(* master.js: placeholder defaults of a master *)

\* { position, textProps } under the type key and under the idx key
DefaultsOfShape(ph, position, textProps) ==
    (IF NameOr(ph, "@_type", "") # ""
     THEN [k \in {ph["@_type"]} |-> [position |-> position, textProps |-> textProps]] ELSE <<>>)
    @@ (IF Has(ph, "@_idx")
        THEN [k \in {IdxKey(ph["@_idx"])} |-> [position |-> position, textProps |-> textProps]]
        ELSE <<>>)

\* one loop step: the entries a p:sp shape adds, none when it is skipped
PlaceholderDefaultsOf(shape, colorResolver) ==
    IF shape.type # "p:sp" \/ shape.element = EmptyElement THEN <<>>
    ELSE IF ~Truthy(Get(shape.element, "p:nvSpPr"), "p:nvPr") THEN <<>>
    ELSE IF ~Truthy(shape.element["p:nvSpPr"]["p:nvPr"], "p:ph") THEN <<>>
    ELSE DefaultsOfShape(shape.element["p:nvSpPr"]["p:nvPr"]["p:ph"],
                         extractPosition(Get(Get(shape.element, "p:spPr"), "a:xfrm")),
                         LocalTextProps(shape.element, colorResolver))

\* later shapes overwrite the keys of earlier ones
RECURSIVE extractPlaceholderDefaults(_, _)
extractPlaceholderDefaults(shapes, colorResolver) ==
    IF shapes = <<>> THEN <<>>
    ELSE PlaceholderDefaultsOf(shapes[Len(shapes)], colorResolver)
         @@ extractPlaceholderDefaults(SubSeq(shapes, 1, Len(shapes) - 1), colorResolver)

----------------------------------------------------------------------------
(* layouts and master placeholder shapes the layout parser is run on *)

PhElements ==
    {("@_type" :> "title"), ("@_type" :> "body"), ("@_idx" :> "1"),
     ("@_type" :> "body") @@ ("@_idx" :> "1"), ("@_sz" :> "half")}

XfrmElement(x, y, cx, cy) ==
    ("a:off" :> (("@_x" :> x) @@ ("@_y" :> y))) @@ ("a:ext" :> (("@_cx" :> cx) @@ ("@_cy" :> cy)))

LayoutXfrm == XfrmElement(457200, 274320, 8229600, 1371600)
MasterXfrm == XfrmElement(914400, 914400, 7315200, 100000)
\* an a:xfrm that states a rotation only
RotationOnlyXfrm == ("@_rot" :> 5400000)

LayoutTxBody == ParseTxBody(<<ChildElement("r", 1)>>)
MasterTxBody == ParseTxBody(<<ChildElement("r", 2)>>)

\* a parsed p:sp; nvPr and xfrm and txBody are EmptyElement when left out
SpElement(name, nvPr, xfrm, txBody) ==
    ("p:nvSpPr" :> (("p:cNvPr" :> ("@_name" :> name)) @@ ("p:nvPr" :> nvPr)))
    @@ ("p:spPr" :> (IF xfrm = EmptyElement THEN EmptyElement ELSE ("a:xfrm" :> xfrm)))
    @@ (IF txBody = EmptyElement THEN <<>> ELSE ("p:txBody" :> txBody))

PicElement(nvPr, xfrm) ==
    ("p:nvPicPr" :> (("p:cNvPr" :> ("@_name" :> "Logo")) @@ ("p:nvPr" :> nvPr)))
    @@ ("p:blipFill" :> ("a:blip" :> ("@_r:embed" :> "rId2")))
    @@ ("p:spPr" :> (IF xfrm = EmptyElement THEN EmptyElement ELSE ("a:xfrm" :> xfrm)))

LayoutShapes ==
    {SpElement("Shape", nvPr, xfrm, txBody) :
        nvPr \in {EmptyElement} \cup {("p:ph" :> ph) : ph \in PhElements},
        xfrm \in {EmptyElement, LayoutXfrm, RotationOnlyXfrm},
        txBody \in {EmptyElement, LayoutTxBody}}

OverrideBlocks ==
    {EmptyElement,
     ("@_tx1" :> "lt1"),
     ("@_bg1" :> "dk1") @@ ("@_tx1" :> "lt1"),
     ("@_tx1" :> "lt1") @@ ("a:extLst" :> ("a:ext" :> ("@_uri" :> "u"))),
     ("a:extLst" :> ("a:ext" :> ("@_uri" :> "u")))}

\* the p:clrMapOvr elements; EmptyElement also stands for a layout without one
ClrMapOvrs ==
    {EmptyElement, ("a:masterClrMapping" :> EmptyElement)}
    \cup {("a:overrideClrMapping" :> b) : b \in OverrideBlocks}
    \cup {("a:masterClrMapping" :> EmptyElement) @@ ("a:overrideClrMapping" :> b) :
             b \in OverrideBlocks \ {EmptyElement}}

LayoutXml(attributes, clrMapOvr, spTree) ==
    ("p:sldLayout" :>
        (attributes
         @@ ("p:cSld" :> ("p:spTree" :> spTree))
         @@ (IF clrMapOvr = EmptyElement THEN <<>> ELSE ("p:clrMapOvr" :> clrMapOvr))))

TitleOnlyTree ==
    ("p:sp" :> SpElement("Title 1", ("p:ph" :> ("@_type" :> "title")), EmptyElement, EmptyElement))
    @@ ("p:pic" :> PicElement(EmptyElement, LayoutXfrm))
    @@ ("p:grpSp" :> Arr(<<EmptyElement, EmptyElement>>))

LayoutXmls ==
    {Null, ("p:sldLayout" :> EmptyElement)}
    \cup {LayoutXml(a, ovr, TitleOnlyTree) :
             a \in {("@_name" :> "Title Slide"), ("@_showMasterSp" :> "0") @@ ("@_type" :> "title")},
             ovr \in ClrMapOvrs}
    \cup {LayoutXml(("@_name" :> "Content"), EmptyElement, ("p:sp" :> sp)) : sp \in LayoutShapes}
    \cup {LayoutXml(("@_name" :> "Two"), EmptyElement,
                     ("p:sp" :> Arr(<<sp, SpElement("Text", EmptyElement, LayoutXfrm, LayoutTxBody)>>))
                     @@ ("p:pic" :> Arr(<<PicElement(("p:ph" :> ("@_type" :> "body")), EmptyElement),
                                          PicElement(("p:ph" :> ("@_idx" :> "1")), LayoutXfrm)>>))) :
             sp \in LayoutShapes}

\* the master's placeholder shapes: for each placeholder identity none, or one
\* with a position, a text body, or both
MasterShapeVariants(ph) ==
    {<<>>}
    \cup {<<[type |-> "p:sp", element |-> SpElement("Master", ("p:ph" :> ph), x[1], x[2])]>> :
             x \in {<<MasterXfrm, MasterTxBody>>, <<MasterXfrm, EmptyElement>>,
                    <<EmptyElement, MasterTxBody>>}}

MasterShapeLists ==
    {a \o b \o c \o d :
        a \in MasterShapeVariants(("@_type" :> "title")),
        b \in MasterShapeVariants(("@_type" :> "body")),
        c \in MasterShapeVariants(("@_idx" :> "1")),
        d \in MasterShapeVariants(("@_type" :> "body") @@ ("@_idx" :> "1"))}

LayoutResolvers == {Null, createColorResolver(ThemeFull, DEFAULT_CLR_MAP)}

InitLayout ==
    /\ resolver \in LayoutResolvers
    /\ op = "idle"
    /\ arg = <<>>
    /\ ret = <<>>
    /\ NoRun

\* parseSlideLayout(layoutXml, null, null, options)
ParseSlideLayout(layoutXml, options) ==
    /\ op = "idle"
    /\ op' = "parseSlideLayout"
    /\ arg' = [layoutXml |-> layoutXml, options |-> options]
    /\ ret' = parseSlideLayout(layoutXml, options)
    /\ UNCHANGED <<resolver, outputDir, step>>

\* the options of a call: master defaults absent, or those of a parsed master
LayoutOptions ==
    [R \in LayoutResolvers |->
        {[colorResolver |-> R, masterDefaults |-> Null]}
        \cup {[colorResolver |-> R, masterDefaults |-> extractPlaceholderDefaults(shapes, R)] :
                 shapes \in MasterShapeLists}]

NextLayout ==
    \/ /\ op = "idle"
       /\ \E layoutXml \in LayoutXmls, options \in LayoutOptions[resolver] :
             ParseSlideLayout(layoutXml, options)
    \/ Done

SpecLayout == InitLayout /\ [][NextLayout]_vars

----------------------------------------------------------------------------
(* properties of parseSlideLayout *)

ParsedLayout == op = "parseSlideLayout" /\ arg.layoutXml # Null /\ Truthy(arg.layoutXml, "p:sldLayout")

\* the placeholder p:sp elements of the parsed layout, in document order; the
\* k-th of them is the source of the k-th returned placeholder
IsPlaceholderSp(sp) == Truthy(Get(Get(sp, "p:nvSpPr"), "p:nvPr"), "p:ph")
PlaceholderSps ==
    SelectSeq(toArray(Get(Get(Get(arg.layoutXml["p:sldLayout"], "p:cSld"), "p:spTree"), "p:sp")),
              IsPlaceholderSp)

IsPlaceholderPic(pic) == Truthy(Get(Get(pic, "p:nvPicPr"), "p:nvPr"), "p:ph")
PlaceholderPics ==
    SelectSeq(toArray(Get(Get(Get(arg.layoutXml["p:sldLayout"], "p:cSld"), "p:spTree"), "p:pic")),
              IsPlaceholderPic)

PhOf(sp) == sp["p:nvSpPr"]["p:nvPr"]["p:ph"]
LocalXfrm(sp) == Get(Get(sp, "p:spPr"), "a:xfrm")
HasLocalPosition(sp) == Truthy(LocalXfrm(sp), "a:off") \/ Truthy(LocalXfrm(sp), "a:ext")
HasLocalTextBody(sp) == Truthy(sp, "p:txBody")

MasterDefaults == arg.options.masterDefaults
HasTypeDefault(sp) ==
    MasterDefaults # Null /\ Has(PhOf(sp), "@_type") /\ Has(MasterDefaults, PhOf(sp)["@_type"])
HasIdxDefault(sp) ==
    MasterDefaults # Null /\ Has(PhOf(sp), "@_idx")
    /\ Has(MasterDefaults, "idx:" \o PhOf(sp)["@_idx"])
TypeDefault(sp) == MasterDefaults[PhOf(sp)["@_type"]]
IdxDefault(sp) == MasterDefaults["idx:" \o PhOf(sp)["@_idx"]]

C5_LocalValuesKept ==
    ParsedLayout =>
        /\ \A k \in 1..Len(PlaceholderSps) :
            /\ HasLocalPosition(PlaceholderSps[k]) =>
                   ret.placeholders[k].position = extractPosition(LocalXfrm(PlaceholderSps[k]))
            /\ HasLocalTextBody(PlaceholderSps[k]) =>
                   ret.placeholders[k].textProps
                       = extractTextProps(PlaceholderSps[k]["p:txBody"], arg.options.colorResolver)
        /\ \A j \in 1..Len(PlaceholderPics) :
               HasLocalPosition(PlaceholderPics[j]) =>
                   ret.placeholders[Len(PlaceholderSps) + j].position
                       = extractPosition(LocalXfrm(PlaceholderPics[j]))

\* a placeholder kept its local position, or its local text, although the
\* master default of its type offers a different one
C5_Witness ==
    /\ ParsedLayout
    /\ \E k \in 1..Len(PlaceholderSps) :
          /\ HasTypeDefault(PlaceholderSps[k])
          /\ \/ /\ HasLocalPosition(PlaceholderSps[k])
                /\ TypeDefault(PlaceholderSps[k]).position # Null
                /\ TypeDefault(PlaceholderSps[k]).position # ret.placeholders[k].position
             \/ /\ HasLocalTextBody(PlaceholderSps[k])
                /\ ~HasLocalPosition(PlaceholderSps[k])
                /\ TypeDefault(PlaceholderSps[k]).textProps # Null
                /\ TypeDefault(PlaceholderSps[k]).textProps # ret.placeholders[k].textProps

\* C6: a placeholder without a local text body gets the text properties of its
\* master default (by type, else by idx) whenever that default has text
\* properties, with or without a local position.
C6_TextPropsInherited ==
    ParsedLayout =>
        \A k \in 1..Len(PlaceholderSps) :
            ~HasLocalTextBody(PlaceholderSps[k]) =>
                /\ (HasTypeDefault(PlaceholderSps[k]) /\ TypeDefault(PlaceholderSps[k]).textProps # Null)
                       => ret.placeholders[k].textProps = TypeDefault(PlaceholderSps[k]).textProps
                /\ (~HasTypeDefault(PlaceholderSps[k]) /\ HasIdxDefault(PlaceholderSps[k])
                      /\ IdxDefault(PlaceholderSps[k]).textProps # Null)
                       => ret.placeholders[k].textProps = IdxDefault(PlaceholderSps[k]).textProps

ClrMapOvr == Get(arg.layoutXml["p:sldLayout"], "p:clrMapOvr")
OverrideBlock == ClrMapOvr["a:overrideClrMapping"]
BlockAttributes(block) ==
    [n \in {a \in AttributeNames : Has(block, "@_" \o a)} |-> block["@_" \o n]]

\* C7: clrMapOverride is null when the layout declares master inheritance only
\* or has no override element, and for an explicit override block it is the
\* map of exactly that block's attribute names and values.
C7_ClrMapOverrideExact ==
    ParsedLayout =>
        IF Has(ClrMapOvr, "a:overrideClrMapping")
        THEN ret.clrMapOverride = BlockAttributes(OverrideBlock)
        ELSE ret.clrMapOverride = Null

\* C7 as amended: clrMapOverride is null when the layout declares master
\* inheritance, has no override element, or its override block carries no
\* attribute; for an override block with at least one attribute and no
\* master-inheritance element beside it, it is the map of exactly that block's
\* attribute names and values.
C7_ClrMapOverrideOfAttributes ==
    ParsedLayout =>
        IF /\ Has(ClrMapOvr, "a:overrideClrMapping")
           /\ ~Has(ClrMapOvr, "a:masterClrMapping")
           /\ DOMAIN BlockAttributes(OverrideBlock) # {}
        THEN ret.clrMapOverride = BlockAttributes(OverrideBlock)
        ELSE ret.clrMapOverride = Null

\* an override block holding an attribute and a child element gave the map of
\* the attribute alone
C7_Witness ==
    /\ ParsedLayout
    /\ Has(ClrMapOvr, "a:overrideClrMapping")
    /\ Has(OverrideBlock, "a:extLst")
    /\ ret.clrMapOverride = [tx1 |-> "lt1"]

----------------------------------------------------------------------------
(* the slide master: colour map, shape tree, static shapes *)

parseClrMap(clrMapEl) == IF clrMapEl = EmptyElement THEN <<>> ELSE AttributesOf(clrMapEl)

ShapeItems(spTree, type) ==
    [i \in 1..Len(toArray(Get(spTree, type))) |->
        [type |-> type, element |-> toArray(Get(spTree, type))[i]]]

\* the children of p:spTree tagged by kind, kind by kind
extractShapeTree(spTree) ==
    IF spTree = EmptyElement THEN <<>>
    ELSE ShapeItems(spTree, "p:sp") \o ShapeItems(spTree, "p:pic") \o ShapeItems(spTree, "p:grpSp")
         \o ShapeItems(spTree, "p:cxnSp") \o ShapeItems(spTree, "p:graphicFrame")

MasterStaticShape(sp, colorResolver) ==
    StaticShapeData(NameOr(Get(Get(sp, "p:nvSpPr"), "p:cNvPr"), "@_name", ""),
                    extractPosition(Get(Get(sp, "p:spPr"), "a:xfrm")),
                    LocalTextProps(sp, colorResolver),
                    extractShapeProps(Get(sp, "p:spPr"))).data

MasterStaticPicture(pic) ==
    [type |-> "picture",
     name |-> NameOr(Get(Get(pic, "p:nvPicPr"), "p:cNvPr"), "@_name", ""),
     position |-> extractPosition(Get(Get(pic, "p:spPr"), "a:xfrm")),
     fill |-> Null, line |-> Null, textProps |-> Null,
     imageRef |-> NameOr(Get(Get(pic, "p:blipFill"), "a:blip"), "@_r:embed", "")]

\* one loop step: the static shape a tree item yields, none when it is skipped
StaticShapesOf(shape, colorResolver) ==
    IF shape.element = EmptyElement THEN <<>>
    ELSE IF shape.type = "p:sp"
    THEN IF Truthy(Get(Get(shape.element, "p:nvSpPr"), "p:nvPr"), "p:ph") THEN <<>>
         ELSE <<MasterStaticShape(shape.element, colorResolver)>>
    ELSE IF shape.type = "p:pic"
    THEN IF Truthy(Get(Get(shape.element, "p:nvPicPr"), "p:nvPr"), "p:ph") THEN <<>>
         ELSE <<MasterStaticPicture(shape.element)>>
    ELSE <<>>

RECURSIVE processNonPlaceholderShapes(_, _)
processNonPlaceholderShapes(shapes, colorResolver) ==
    IF shapes = <<>> THEN <<>>
    ELSE StaticShapesOf(Head(shapes), colorResolver)
         \o processNonPlaceholderShapes(Tail(shapes), colorResolver)

EmptyMaster ==
    [clrMap |-> <<>>, background |-> Null, shapes |-> <<>>, placeholderDefaults |-> <<>>]

\* the record parseSlideMaster returns, without text styles and relationships
MasterRecord(master, shapes, colorResolver) ==
    [clrMap |-> parseClrMap(Get(master, "p:clrMap")),
     background |-> extractBackground(Get(Get(master, "p:cSld"), "p:bg")),
     shapes |-> shapes,
     placeholderDefaults |-> extractPlaceholderDefaults(shapes, colorResolver),
     staticShapes |-> processNonPlaceholderShapes(shapes, colorResolver)]

\* colorResolver is options?.colorResolver || null
parseSlideMaster(masterXml, colorResolver) ==
    IF masterXml = Null \/ ~Truthy(masterXml, "p:sldMaster") THEN EmptyMaster
    ELSE MasterRecord(masterXml["p:sldMaster"],
                      extractShapeTree(Get(Get(masterXml["p:sldMaster"], "p:cSld"), "p:spTree")),
                      colorResolver)

----------------------------------------------------------------------------
(* extract(): the masters and the parsed layouts of its result.            *)
(* A document is [themeColors, masters, layouts]: the theme's colours, the  *)
(* parsed slideMaster files, and per slideLayout file its parsed xml and    *)
(* the index of the master its relationship names (0 when it names none).   *)

\* first pass: parseSlideMaster(masterXml, masterRels) on every master file
RECURSIVE FirstPass(_)
FirstPass(masterXmls) ==
    IF masterXmls = <<>> THEN <<>>
    ELSE <<parseSlideMaster(Head(masterXmls), Null)>> \o FirstPass(Tail(masterXmls))

\* master.placeholderDefaults = reParsed.placeholderDefaults and
\* master.staticShapes = reParsed.staticShapes
WithReparsed(master, reParsed) ==
    Spread(master,
           [k \in {"placeholderDefaults", "staticShapes"} \cap DOMAIN reParsed |-> reParsed[k]])

\* second pass: every master parsed again with the resolver of its own map
RECURSIVE ReparsedMasters(_, _, _)
ReparsedMasters(themeColors, masterXmls, masters) ==
    IF masters = <<>> THEN <<>>
    ELSE <<WithReparsed(Head(masters),
                        parseSlideMaster(Head(masterXmls),
                                         createColorResolver(themeColors, Head(masters).clrMap)))>>
         \o ReparsedMasters(themeColors, Tail(masterXmls), Tail(masters))

\* createColorResolver(themeColors, masters.length > 0 ? masters[0].clrMap : {})
DefaultColorResolver(themeColors, masters) ==
    createColorResolver(themeColors, IF Len(masters) > 0 THEN masters[1].clrMap ELSE <<>>)

\* masters.find((m) => m._file === masterFile) || masters[0] || null
MasterForLayout(masters, masterRel) ==
    IF masterRel \in 1..Len(masters) THEN masters[masterRel]
    ELSE IF Len(masters) > 0 THEN masters[1]
    ELSE Null

\* the override read from the raw xml before the layout is parsed: none when
\* the override block is missing or empty, else the block's attributes
PreExtractedOverride(layoutXml) ==
    IF layoutXml = Null \/ ~Truthy(layoutXml, "p:sldLayout") THEN Null
    ELSE IF ~Truthy(layoutXml["p:sldLayout"], "p:clrMapOvr") THEN Null
    ELSE IF Has(layoutXml["p:sldLayout"]["p:clrMapOvr"], "a:masterClrMapping") THEN Null
    ELSE IF ~Truthy(layoutXml["p:sldLayout"]["p:clrMapOvr"], "a:overrideClrMapping") THEN Null
    ELSE AttributesOf(layoutXml["p:sldLayout"]["p:clrMapOvr"]["a:overrideClrMapping"])

\* { ...(masterForLayout?.clrMap || {}), ...layoutClrMapOverride }
LayoutClrMap(masterForLayout, override) ==
    IF override # Null
    THEN Spread(IF masterForLayout # Null THEN masterForLayout.clrMap ELSE <<>>, override)
    ELSE IF masterForLayout # Null THEN masterForLayout.clrMap ELSE <<>>

LayoutColorResolver(themeColors, masters, masterForLayout, override) ==
    IF masterForLayout # Null
    THEN createColorResolver(themeColors, LayoutClrMap(masterForLayout, override))
    ELSE DefaultColorResolver(themeColors, masters)

\* the options extract hands to parseSlideLayout
LayoutOptionsFor(themeColors, masters, masterForLayout, layoutXml) ==
    [colorResolver |-> LayoutColorResolver(themeColors, masters, masterForLayout,
                                           PreExtractedOverride(layoutXml)),
     masterDefaults |-> IF masterForLayout # Null THEN masterForLayout.placeholderDefaults
                        ELSE Null]

\* the options are built first, then the layout is parsed with them
ParseLayoutFor(themeColors, masters, masterForLayout, layoutXml) ==
    parseSlideLayout(layoutXml, LayoutOptionsFor(themeColors, masters, masterForLayout, layoutXml))

\* the loop over the layout files
RECURSIVE ParsedLayouts(_, _, _)
ParsedLayouts(themeColors, masters, layouts) ==
    IF layouts = <<>> THEN <<>>
    ELSE <<ParseLayoutFor(themeColors, masters,
                          MasterForLayout(masters, Head(layouts).masterRel), Head(layouts).xml)>>
         \o ParsedLayouts(themeColors, masters, Tail(layouts))

\* the themeColors and layouts of extract's result; the mapping of the parsed
\* layouts to masterData is not carried
ExtractResult(themeColors, masters, layouts) ==
    [themeColors |-> themeColors, layouts |-> ParsedLayouts(themeColors, masters, layouts)]

----------------------------------------------------------------------------
(* documents extract is run on *)

MasterClrMapElements ==
    {EmptyElement,
     ("@_bg1" :> "lt1") @@ ("@_tx1" :> "dk1") @@ ("@_accent1" :> "accent1"),
     ("@_bg1" :> "dk1") @@ ("@_tx1" :> "lt1") @@ ("@_accent1" :> "accent2")}

\* a title placeholder and a static text shape, or a title placeholder
\* without text beside a static picture
MasterTrees ==
    {("p:sp" :> Arr(<<SpElement("Title", ("p:ph" :> ("@_type" :> "title")), MasterXfrm, MasterTxBody),
                      SpElement("Brand", EmptyElement, MasterXfrm, MasterTxBody)>>)),
     ("p:sp" :> SpElement("Title", ("p:ph" :> ("@_type" :> "title")), MasterXfrm, EmptyElement))
     @@ ("p:pic" :> Arr(<<PicElement(EmptyElement, MasterXfrm),
                          PicElement(("p:ph" :> ("@_type" :> "pic")), MasterXfrm)>>))
     @@ ("p:cxnSp" :> EmptyElement)}

MasterXml(clrMap, spTree) ==
    ("p:sldMaster" :>
        ((IF clrMap = EmptyElement THEN <<>> ELSE ("p:clrMap" :> clrMap))
         @@ ("p:cSld" :> ("p:spTree" :> spTree))))

MasterXmls == {MasterXml(clrMap, spTree) : clrMap \in MasterClrMapElements, spTree \in MasterTrees}

MasterXmlLists ==
    {<<>>, <<("p:sldMaster" :> EmptyElement)>>}
    \cup {<<m>> : m \in MasterXmls}
    \cup {<<MasterXml(("@_tx1" :> "dk1"), t), MasterXml(("@_tx1" :> "lt1"), t)>> : t \in MasterTrees}

\* a title placeholder with or without a position and a text body of its
\* own, beside a static text shape
ExtractLayoutTrees ==
    {("p:sp" :> Arr(<<SpElement("Title 1", ("p:ph" :> ("@_type" :> "title")), xfrm, txBody),
                      SpElement("Note", EmptyElement, LayoutXfrm, LayoutTxBody)>>)) :
        xfrm \in {EmptyElement, LayoutXfrm}, txBody \in {EmptyElement, LayoutTxBody}}

\* the p:clrMapOvr elements of the layouts of a document
ExtractClrMapOvrs ==
    {EmptyElement,
     ("a:masterClrMapping" :> EmptyElement),
     ("a:overrideClrMapping" :> EmptyElement),
     ("a:overrideClrMapping" :> ("@_tx1" :> "lt1")),
     ("a:overrideClrMapping" :> (("@_bg1" :> "dk1") @@ ("@_tx1" :> "dk1"))),
     ("a:masterClrMapping" :> EmptyElement) @@ ("a:overrideClrMapping" :> ("@_tx1" :> "lt1"))}

LayoutFiles ==
    {[xml |-> LayoutXml(("@_name" :> "Title Slide"), ovr, spTree), masterRel |-> rel] :
        ovr \in ExtractClrMapOvrs, spTree \in ExtractLayoutTrees, rel \in 0..2}

LayoutFileLists ==
    {<<>>, <<[xml |-> Null, masterRel |-> 0]>>}
    \cup {<<l>> : l \in LayoutFiles}
    \cup {<<[xml |-> LayoutXml(("@_name" :> "Blank"), EmptyElement, EmptyElement), masterRel |-> 1],
            [xml |-> LayoutXml(("@_name" :> "Title Only"), ovr, TitleOnlyTree), masterRel |-> 2]>> :
             ovr \in ExtractClrMapOvrs}

Documents ==
    [themeColors : {ThemeFull}, masters : MasterXmlLists, layouts : LayoutFileLists]

InitExtract ==
    /\ resolver = Null
    /\ op = "idle"
    /\ arg = <<>>
    /\ ret = <<>>
    /\ NoRun

\* extract(inputPath) on the archive that holds the document: the masters
\* of the first pass, the masters after the second pass, then the layouts;
\* the resolvers of the call are built and dropped within it
Extract(document) ==
    /\ op = "idle"
    /\ op' = "extract"
    /\ arg' = document
    /\ \E parsed \in {FirstPass(document.masters)} :
          \E masters \in {ReparsedMasters(document.themeColors, document.masters, parsed)} :
             ret' = ExtractResult(document.themeColors, masters, document.layouts)
    /\ UNCHANGED <<resolver, outputDir, step>>

NextExtract ==
    \/ /\ op = "idle"
       /\ \E document \in Documents : Extract(document)
    \/ Done

SpecExtract == InitExtract /\ [][NextExtract]_vars

----------------------------------------------------------------------------
(* properties of extract *)

\* the master file that owns the i-th layout of the document, as the
\* relationship of the layout names it (the first master when it names none)
OwningMasterXml(i) ==
    IF arg.layouts[i].masterRel \in 1..Len(arg.masters)
    THEN arg.masters[arg.layouts[i].masterRel]
    ELSE arg.masters[1]

HasOwningMaster(i) ==
    /\ arg.layouts[i].xml # Null
    /\ arg.masters # <<>>
    /\ Truthy(OwningMasterXml(i), "p:sldMaster")

\* the attributes of the owning master's p:clrMap
OwningMasterMap(i) ==
    [n \in {m \in AttributeNames : Has(Get(OwningMasterXml(i)["p:sldMaster"], "p:clrMap"), "@_" \o m)} |->
        OwningMasterXml(i)["p:sldMaster"]["p:clrMap"]["@_" \o n]]

\* the attributes of the layout's override block, none when the layout
\* inherits the master's map
LayoutOverrideBlock(i) ==
    IF Has(Get(arg.layouts[i].xml["p:sldLayout"], "p:clrMapOvr"), "a:masterClrMapping")
    THEN EmptyElement
    ELSE Get(Get(arg.layouts[i].xml["p:sldLayout"], "p:clrMapOvr"), "a:overrideClrMapping")

\* the master's value on every key the layout does not override, the
\* layout's value on every key it does
EffectiveClrMap(i) ==
    [n \in {m \in AttributeNames : Has(LayoutOverrideBlock(i), "@_" \o m)} \cup DOMAIN OwningMasterMap(i) |->
        IF Has(LayoutOverrideBlock(i), "@_" \o n)
        THEN LayoutOverrideBlock(i)["@_" \o n]
        ELSE OwningMasterMap(i)[n]]

\* every text run of the documents is coloured <a:schemeClr val="tx1"/>
EffectiveTextColor(i) ==
    resolveSchemeColor(createColorResolver(arg.themeColors, EffectiveClrMap(i)), "tx1")

RunColours(runs) == {runs[r].color : r \in {q \in 1..Len(runs) : Has(runs[q], "color")}}

TextColours(textProps) ==
    IF textProps = Null THEN {}
    ELSE UNION {RunColours(textProps.paragraphs[p].runs) : p \in 1..Len(textProps.paragraphs)}

ShapeTextColours(shapes) ==
    UNION {TextColours(shapes[k].textProps) : k \in {j \in 1..Len(shapes) : Has(shapes[j], "textProps")}}

\* the text colours in the i-th layout of the result
LayoutTextColours(i) ==
    ShapeTextColours(ret.layouts[i].placeholders) \cup ShapeTextColours(ret.layouts[i].staticShapes)

\* C8: every text colour in a layout of extract's result, that of the
\* layout's own shapes and placeholders and that of text properties
\* inherited from the master's placeholder defaults, is the colour reference
\* resolved through the layout's effective colour map: the owning master's
\* map on every key the layout does not override, the layout's override
\* value on every key it does.
C8_ColoursThroughEffectiveMap ==
    op = "extract" =>
        \A i \in 1..Len(ret.layouts) :
            HasOwningMaster(i) => LayoutTextColours(i) \subseteq {EffectiveTextColor(i)}

----------------------------------------------------------------------------
(* JavaScript strings of the mappers, as sequences of characters *)

WhiteSpace == {" ", "\t", "\n"}

RECURSIVE TrimStart(_)
TrimStart(s) == IF s # <<>> /\ Head(s) \in WhiteSpace THEN TrimStart(Tail(s)) ELSE s

RECURSIVE TrimEnd(_)
TrimEnd(s) == IF s # <<>> /\ s[Len(s)] \in WhiteSpace THEN TrimEnd(SubSeq(s, 1, Len(s) - 1)) ELSE s

\* String.prototype.trim
Trim(s) == TrimEnd(TrimStart(s))

UpperLetters == <<"A","B","C","D","E","F","G","H","I","J","K","L","M",
                  "N","O","P","Q","R","S","T","U","V","W","X","Y","Z">>
LowerLetters == <<"a","b","c","d","e","f","g","h","i","j","k","l","m",
                  "n","o","p","q","r","s","t","u","v","w","x","y","z">>

toLowerCase(s) ==
    [i \in 1..Len(s) |->
        IF \E k \in 1..26 : UpperLetters[k] = s[i]
        THEN LowerLetters[CHOOSE k \in 1..26 : UpperLetters[k] = s[i]]
        ELSE s[i]]

\* String.prototype.includes
Includes(s, sub) == \E i \in 0..(Len(s) - Len(sub)) : SubSeq(s, i + 1, i + Len(sub)) = sub

StartsWith(s, prefix) == Len(s) >= Len(prefix) /\ SubSeq(s, 1, Len(prefix)) = prefix

\* text.split('\n')
RECURSIVE SplitLines(_, _)
SplitLines(s, line) ==
    IF s = <<>> THEN <<line>>
    ELSE IF Head(s) = "\n" THEN <<line>> \o SplitLines(Tail(s), <<>>)
    ELSE SplitLines(Tail(s), Append(line, Head(s)))

\* lines.join('\n')
RECURSIVE JoinLines(_)
JoinLines(lines) ==
    IF lines = <<>> THEN <<>>
    ELSE IF Len(lines) = 1 THEN lines[1]
    ELSE lines[1] \o <<"\n">> \o JoinLines(Tail(lines))

\* /^\[To edit[,.]|^\[Click .+Slide Master/i on the lower-cased line
IsEditInstruction(l) ==
    \/ StartsWith(l, <<"[","t","o"," ","e","d","i","t",",">>)
    \/ StartsWith(l, <<"[","t","o"," ","e","d","i","t",".">>)
    \/ /\ StartsWith(l, <<"[","c","l","i","c","k"," ">>)
       /\ \E k \in 9..(Len(l) - 11) :
             SubSeq(l, k, k + 11) = <<"s","l","i","d","e"," ","m","a","s","t","e","r">>

RECURSIVE KeptLines(_)
KeptLines(lines) ==
    IF lines = <<>> THEN <<>>
    ELSE (IF IsEditInstruction(toLowerCase(Head(lines))) THEN <<>> ELSE <<Head(lines)>>)
         \o KeptLines(Tail(lines))

stripEditInstructions(text) ==
    IF text = <<>> THEN text
    ELSE Trim(JoinLines(KeptLines(SplitLines(text, <<>>))))

----------------------------------------------------------------------------
(* mapTextPropsToOptions: text options of a parsed text body.              *)
(* An undefined field of a parsed record is a key the record lacks.        *)

ALIGN_MAP == ("l" :> "left") @@ ("ctr" :> "center") @@ ("r" :> "right") @@ ("just" :> "justify")

\* the align and _explicitAlign fields extractParagraph gives a paragraph
\* with the properties element pPr
ParagraphAlign(pPr) ==
    IF Has(pPr, "@_algn") /\ Has(ALIGN_MAP, pPr["@_algn"])
    THEN ("align" :> ALIGN_MAP[pPr["@_algn"]]) @@ ("_explicitAlign" :> ALIGN_MAP[pPr["@_algn"]])
    ELSE [align |-> "left"]

\* if (o[k]) opts[k] = o[k], for a name
OptName(o, k) == IF Has(o, k) /\ o[k] # "" THEN (k :> o[k]) ELSE <<>>

\* if (o[k]) opts[k] = o[k], for a colour
OptColor(o, k) == IF Has(o, k) /\ o[k] # <<>> THEN (k :> o[k]) ELSE <<>>

\* if (o[k]) opts[k] = o[k], for a flag
OptFlag(o, k) == IF Has(o, k) /\ o[k] THEN (k :> TRUE) ELSE <<>>

\* if (o[k] != null) opts[k] = o[k]; an array is kept by if (o[k]) as well
OptValue(o, k) == IF Has(o, k) THEN (k :> o[k]) ELSE <<>>

\* a[k] ?? b[k] ?? c[k], as the one-key object holding the value if there is one
Cascade(k, a, b, c) ==
    IF Has(a, k) THEN (k :> a[k])
    ELSE IF Has(b, k) THEN (k :> b[k])
    ELSE OptValue(c, k)

\* textProps.lstStyleProps?.[1] || textProps.lstStyleProps?.[0] || null
LstLevel(textProps) ==
    IF Has(Get(textProps, "lstStyleProps"), "1") THEN textProps.lstStyleProps["1"]
    ELSE IF Has(Get(textProps, "lstStyleProps"), "0") THEN textProps.lstStyleProps["0"]
    ELSE Null

BodyOptions(textProps) ==
    IF Has(textProps, "bodyProps")
    THEN OptValue(textProps.bodyProps, "margin")
         @@ ("valign" :> NameOr(textProps.bodyProps, "valign", "top"))
    ELSE <<>>

\* the paragraph's align, defaulted or not, before the lstStyle
AlignOption_ParagraphFirst(para, lstLevel) ==
    IF Has(para, "align") /\ para.align # "" THEN [align |-> para.align]
    ELSE OptName(lstLevel, "align")

\* explicit paragraph, then lstStyle, then the paragraph's align
AlignOption(para, lstLevel) ==
    IF Has(para, "_explicitAlign") /\ para["_explicitAlign"] # ""
    THEN [align |-> para["_explicitAlign"]]
    ELSE IF Has(lstLevel, "align") /\ lstLevel.align # ""
    THEN [align |-> lstLevel.align]
    ELSE OptName(para, "align")

SpacingOptions(para, lstLevel) ==
    Cascade("lineSpacing", para, lstLevel, <<>>)
    @@ Cascade("lineSpacingMultiple", para, lstLevel, <<>>)
    @@ Cascade("paraSpaceBefore", para, lstLevel, <<>>)
    @@ Cascade("paraSpaceAfter", para, lstLevel, <<>>)

\* (para.runs && para.runs[0]) || {}
FirstRun(para) == IF Has(para, "runs") /\ para.runs # <<>> THEN para.runs[1] ELSE <<>>

\* the first run before the defaults
RunOptions_FirstRunFirst(paraDefRPr, lstDefRPr, firstRun) ==
    OptName(Cascade("fontFace", firstRun, lstDefRPr, paraDefRPr), "fontFace")
    @@ Cascade("fontSize", firstRun, lstDefRPr, paraDefRPr)
    @@ OptColor(Cascade("color", firstRun, lstDefRPr, paraDefRPr), "color")
    @@ OptFlag(Cascade("bold", firstRun, lstDefRPr, paraDefRPr), "bold")
    @@ OptFlag(Cascade("italic", firstRun, lstDefRPr, paraDefRPr), "italic")

RunOptions(paraDefRPr, lstDefRPr, firstRun) ==
    OptName(Cascade("fontFace", paraDefRPr, lstDefRPr, firstRun), "fontFace")
    @@ Cascade("fontSize", paraDefRPr, lstDefRPr, firstRun)
    @@ OptColor(Cascade("color", paraDefRPr, lstDefRPr, firstRun), "color")
    @@ OptFlag(Cascade("bold", paraDefRPr, lstDefRPr, firstRun), "bold")
    @@ OptFlag(Cascade("italic", paraDefRPr, lstDefRPr, firstRun), "italic")

ParagraphOptions(para, lstLevel) ==
    AlignOption(para, lstLevel)
    @@ SpacingOptions(para, lstLevel)
    @@ RunOptions(Get(para, "defaultRunProps"), Get(lstLevel, "defaultRunProps"), FirstRun(para))

\* no paragraphs: the lstStyle level alone
LevelOptions(lstLevel) ==
    OptName(lstLevel, "align")
    @@ SpacingOptions(<<>>, lstLevel)
    @@ OptName(Get(lstLevel, "defaultRunProps"), "fontFace")
    @@ OptValue(Get(lstLevel, "defaultRunProps"), "fontSize")
    @@ OptColor(Get(lstLevel, "defaultRunProps"), "color")
    @@ OptFlag(Get(lstLevel, "defaultRunProps"), "bold")
    @@ OptFlag(Get(lstLevel, "defaultRunProps"), "italic")

mapTextPropsToOptions(textProps) ==
    IF textProps = Null THEN <<>>
    ELSE BodyOptions(textProps)
         @@ (IF Has(textProps, "paragraphs") /\ textProps.paragraphs # <<>>
             THEN ParagraphOptions(textProps.paragraphs[1], LstLevel(textProps))
             ELSE IF LstLevel(textProps) # Null THEN LevelOptions(LstLevel(textProps))
             ELSE <<>>)

----------------------------------------------------------------------------
(* slideNumber.js *)

\* result.fontSize || 8
FontSizeOr8(result) ==
    IF Has(result, "fontSize") /\ result.fontSize # QInt(0) THEN result.fontSize ELSE QInt(8)

\* Math.round(((fontSize * 2.5) / 72) * 10000) / 10000
MinHeight(fontSize) ==
    Q(QRound(QMul(QDiv(QMul(fontSize, Q(5, 2)), QInt(72)), QInt(10000))), 10000)

\* the height left as it is
normalizeSlideNumberHeight_NoRaise(result) == result

normalizeSlideNumberHeight(result) ==
    IF QLt(result.h, MinHeight(FontSizeOr8(result)))
    THEN [result EXCEPT !["h"] = MinHeight(FontSizeOr8(result))]
    ELSE result

\* { x: pos.x ?? 0, y: pos.y ?? 0, w: pos.w ?? 0, h: pos.h ?? 0 } of o.position || {}
PositionOrZero(o) ==
    [k \in {"x", "y", "w", "h"} |->
        IF Has(Get(o, "position"), k) THEN o.position[k] ELSE QInt(0)]

ZeroSize(result) == result.w = QInt(0) /\ result.h = QInt(0)

\* the styling copied from the text options: fontFace, fontSize, color, align
TextStyling(textOpts) ==
    OptName(textOpts, "fontFace") @@ OptValue(textOpts, "fontSize")
    @@ OptColor(textOpts, "color") @@ OptName(textOpts, "align")

\* o.textProps as mapTextPropsToOptions is handed it, {} when it is falsy
TextOptionsOf(o) ==
    IF Has(o, "textProps") /\ o.textProps # Null THEN mapTextPropsToOptions(o.textProps) ELSE <<>>

extractSlideNumberProps(ph) ==
    IF ZeroSize(PositionOrZero(ph)) THEN PositionOrZero(ph)
    ELSE normalizeSlideNumberHeight(PositionOrZero(ph) @@ TextStyling(TextOptionsOf(ph)))

\* every run of every paragraph of the shape
RunsOfShape(shape) ==
    UNION {{shape.textProps.paragraphs[p].runs[r] : r \in 1..Len(shape.textProps.paragraphs[p].runs)} :
              p \in {q \in 1..Len(shape.textProps.paragraphs) :
                        Has(shape.textProps.paragraphs[q], "runs")}}

IsSlideNumField(run) == Has(run, "isField") /\ run.isField /\ NameOr(run, "fieldType", "") = "slidenum"

IsOtherContent(run) ==
    /\ ~IsSlideNumField(run)
    /\ ~(Has(run, "isBreak") /\ run.isBreak)
    /\ Has(run, "text") /\ Trim(run.text) # <<>>

extractSlideNumberFromShape(shape) ==
    IF shape = Null \/ ~Has(shape, "textProps") \/ ~Has(Get(shape, "textProps"), "paragraphs")
    THEN Null
    ELSE IF ~(\E run \in RunsOfShape(shape) : IsSlideNumField(run))
            \/ (\E run \in RunsOfShape(shape) : IsOtherContent(run))
    THEN Null
    ELSE IF ZeroSize(PositionOrZero(shape)) THEN Null
    ELSE normalizeSlideNumberHeight(
            PositionOrZero(shape) @@ TextStyling(TextOptionsOf(shape))
            @@ OptValue(TextOptionsOf(shape), "margin"))

\* ph.textProps?.plainText || ''
PlainTextOf(ph) == Get(Get(ph, "textProps"), "plainText")

extractFooterTextObject(ph) ==
    [text |-> [text |-> stripEditInstructions(PlainTextOf(ph)),
               options |-> ("valign" :> "top")
                           @@ PositionOrZero(ph) @@ TextStyling(TextOptionsOf(ph))
                           @@ OptValue(TextOptionsOf(ph), "margin")]]

\* !pos || (pos.x === 0 && pos.y === 0 && pos.w === 0 && pos.h === 0)
DegeneratePosition(ph) ==
    \/ ~Has(ph, "position")
    \/ ph.position = Null
    \/ \A k \in {"x", "y", "w", "h"} : Get(ph.position, k) = QInt(0)

IsFooterType(ph) == NameOr(ph, "type", "") \in {"ftr", "dt", "hdr"}

\* text.includes('\u00a9') || text.includes('copyright') on the lower-cased
\* text; the copyright sign is the one character written "(c)"
IsCopyright(text) ==
    \/ Includes(toLowerCase(text), <<"(c)">>)
    \/ Includes(toLowerCase(text), <<"c","o","p","y","r","i","g","h","t">>)

\* empty text alone drops a footer
FooterObjectsOf_EmptyTextDropped(ph) ==
    IF ph = Null \/ NameOr(ph, "type", "") = "sldNum" THEN <<>>
    ELSE IF IsFooterType(ph)
    THEN (IF PlainTextOf(ph) = <<>> THEN <<>> ELSE <<extractFooterTextObject(ph)>>)
    ELSE IF NameOr(ph, "type", "") = "" /\ PlainTextOf(ph) # <<>> /\ IsCopyright(PlainTextOf(ph))
    THEN <<extractFooterTextObject(ph)>>
    ELSE <<>>

\* the footer objects one placeholder of the loop contributes
FooterObjectsOf(ph) ==
    IF ph = Null \/ NameOr(ph, "type", "") = "sldNum" THEN <<>>
    ELSE IF IsFooterType(ph)
    THEN (IF PlainTextOf(ph) = <<>> /\ DegeneratePosition(ph) THEN <<>>
          ELSE <<extractFooterTextObject(ph)>>)
    ELSE IF NameOr(ph, "type", "") = "" /\ PlainTextOf(ph) # <<>> /\ IsCopyright(PlainTextOf(ph))
    THEN <<extractFooterTextObject(ph)>>
    ELSE <<>>

RECURSIVE FooterObjects(_)
FooterObjects(placeholders) ==
    IF placeholders = <<>> THEN <<>>
    ELSE FooterObjectsOf(Head(placeholders)) \o FooterObjects(Tail(placeholders))

\* slideNumber after the loop: the props of the last sldNum placeholder
RECURSIVE LastSlideNumber(_, _)
LastSlideNumber(placeholders, slideNumber) ==
    IF placeholders = <<>> THEN slideNumber
    ELSE LastSlideNumber(Tail(placeholders),
                         IF Head(placeholders) # Null /\ NameOr(Head(placeholders), "type", "") = "sldNum"
                         THEN extractSlideNumberProps(Head(placeholders))
                         ELSE slideNumber)

\* slideNumber && slideNumber.w === 0 && slideNumber.h === 0 gives null
NullIfZeroSize(slideNumber) ==
    IF slideNumber # Null /\ ZeroSize(slideNumber) THEN Null ELSE slideNumber

\* placeholders is the array layout.placeholders
mapSlideNumberAndFooters(placeholders) ==
    IF placeholders = <<>>
    THEN [slideNumber |-> Null, footerObjects |-> <<>>]
    ELSE [slideNumber |-> NullIfZeroSize(LastSlideNumber(placeholders, Null)),
          footerObjects |-> FooterObjects(placeholders)]

----------------------------------------------------------------------------
(* parsed text bodies, shapes and placeholders the mappers are run on *)

MaxRuns == 2
MaxPlaceholders == 2

\* run properties as extractRunProps leaves them, undefined fields left out
RunPropSets ==
    {<<>>,
     [bold |-> FALSE, italic |-> FALSE],
     [bold |-> TRUE, italic |-> TRUE, fontSize |-> QInt(12)],
     [fontFace |-> "Arial", fontSize |-> QInt(10), color |-> <<"8","8","8","8","8","8">>]}

\* the levels of a:lstStyle: their alignment and default run properties
LevelSets ==
    {<<>>, [align |-> "center"]}
    \cup {[defaultRunProps |-> rp] : rp \in RunPropSets \ {<<>>}}
    \cup {[align |-> "right", defaultRunProps |-> [bold |-> TRUE, fontFace |-> "Georgia"]]}

LstStyleSets ==
    {Null}
    \cup {("1" :> level) : level \in LevelSets}
    \cup {("0" :> [align |-> "justify", defaultRunProps |-> [italic |-> TRUE]])}
    \cup {("0" :> [align |-> "justify"]) @@ ("1" :> [defaultRunProps |-> [fontSize |-> QInt(0)]])}

ParagraphElements == {<<>>, ("@_algn" :> "ctr"), ("@_algn" :> "r"), ("@_algn" :> "dist")}

\* the first paragraph: alignment, default run properties, runs
ParagraphSets ==
    {ParagraphAlign(pPr)
     @@ (IF defRPr = Null THEN <<>> ELSE [defaultRunProps |-> defRPr])
     @@ [runs |-> IF run = Null THEN <<>> ELSE <<[text |-> <<"H","i">>] @@ run>>] :
        pPr \in ParagraphElements,
        defRPr \in {Null} \cup (RunPropSets \ {<<>>}),
        run \in {Null} \cup RunPropSets}

DefaultMargin == <<Q(1, 20), Q(1, 10), Q(1, 20), Q(1, 10)>>

TextPropSets ==
    {Null,
     [paragraphs |-> <<>>, plainText |-> <<>>, lstStyleProps |-> Null,
      bodyProps |-> [margin |-> DefaultMargin]]}
    \cup {[paragraphs |-> <<>>, plainText |-> <<>>, lstStyleProps |-> lst,
           bodyProps |-> [margin |-> DefaultMargin, valign |-> "middle"]] : lst \in LstStyleSets}
    \cup {[paragraphs |-> <<para>>, plainText |-> <<"H","i">>, lstStyleProps |-> lst] :
             para \in ParagraphSets, lst \in LstStyleSets}

\* runs of a text box: slide-number fields of several sizes, other fields
\* with and without text, a break, blank text, text
SlideNumField(props) == [text |-> <<"#">>, isField |-> TRUE, fieldType |-> "slidenum"] @@ props

ShapeRunSets ==
    {SlideNumField(<<>>),
     SlideNumField([fontSize |-> QInt(10)]),
     SlideNumField([fontSize |-> QInt(0)]),
     SlideNumField([fontSize |-> QInt(36), fontFace |-> "Arial"]),
     [text |-> <<"1","/","1">>, isField |-> TRUE, fieldType |-> "datetime1"],
     [text |-> <<>>, isField |-> TRUE, fieldType |-> "datetime1"],
     [text |-> <<"\n">>, isBreak |-> TRUE],
     [text |-> <<" ", "\t">>],
     [text |-> <<" ", "P", " ">>]}

RunLists == UNION {[1..n -> ShapeRunSets] : n \in 0..MaxRuns}

Inches(x, y, w, h) == [x |-> x, y |-> y, w |-> w, h |-> h]

TinyPosition == Inches(Q(25, 2), Q(713, 100), Q(17, 50), Q(13, 100))

PositionSets ==
    {Inches(QInt(0), QInt(0), QInt(0), QInt(0)),
     TinyPosition,
     Inches(QInt(1), QInt(7), QInt(0), QInt(2)),
     Inches(QInt(0), QInt(0), QInt(3), QInt(0))}

WithPosition(o, pos) == IF pos = Null THEN o ELSE [position |-> pos] @@ o

TextBoxSets ==
    {Null, [name |-> "Picture 3"], [name |-> "Box", textProps |-> Null]}
    \cup {WithPosition([textProps |-> [paragraphs |-> <<[runs |-> runs]>>, plainText |-> <<>>]], pos) :
             runs \in RunLists, pos \in {Null} \cup PositionSets}
    \cup {WithPosition([textProps |-> [paragraphs |-> <<[runs |-> <<r1>>], [align |-> "left"], [runs |-> <<r2>>]>>,
                                       plainText |-> <<>>]], TinyPosition) :
             r1 \in ShapeRunSets, r2 \in ShapeRunSets}

PlainTexts ==
    {<<>>,
     <<"H","i">>,
     <<" ">>,
     <<"(c)"," ","A","B">>,
     <<"C","o","p","y","R","i","g","h","t">>,
     <<"[","T","o"," ","E","d","i","t",","," ","x","]","\n","A","B"," ">>,
     <<"[","C","l","i","c","k"," ","a"," ","S","l","i","d","e"," ","M","a","s","t","e","r","]">>,
     <<"[","C","l","i","c","k"," ","S","l","i","d","e"," ","M","a","s","t","e","r","]">>}

FooterTextProps(plainText) ==
    [paragraphs |-> <<[align |-> "left", runs |-> <<[text |-> plainText, fontSize |-> QInt(9)]>>]>>,
     plainText |-> plainText,
     bodyProps |-> [margin |-> DefaultMargin]]

PlaceholderSets ==
    {Null}
    \cup {WithPosition([type |-> "sldNum", textProps |-> tp], pos) :
             tp \in {Null, FooterTextProps(<<"#">>),
                     [paragraphs |-> <<[align |-> "right", runs |-> <<[text |-> <<>>, fontSize |-> QInt(10)]>>]>>,
                      plainText |-> <<>>]},
             pos \in {Inches(QInt(0), QInt(0), QInt(0), QInt(0)), TinyPosition}}
    \cup {WithPosition([type |-> "ftr", textProps |-> FooterTextProps(text)], pos) :
             text \in {<<>>, <<"H","i">>},
             pos \in {Null, Inches(QInt(0), QInt(0), QInt(0), QInt(0)),
                      Inches(QInt(1), QInt(7), QInt(0), QInt(0))}}
    \cup {WithPosition([type |-> type, textProps |-> FooterTextProps(<<>>)], Null) : type \in {"dt", "hdr"}}
    \cup {WithPosition([type |-> type, textProps |-> FooterTextProps(<<" ">>)],
                       Inches(QInt(0), QInt(0), QInt(0), QInt(0))) : type \in {"dt", "hdr"}}
    \cup {[type |-> "ftr"], [type |-> "ftr", position |-> Null, textProps |-> Null]}
    \cup {[type |-> "title", textProps |-> FooterTextProps(<<"C","o","p","y","R","i","g","h","t">>)]}
    \cup {[textProps |-> FooterTextProps(text)] : text \in PlainTexts \ {<<>>, <<" ">>}}

PlaceholderLists == UNION {[1..n -> PlaceholderSets] : n \in 0..MaxPlaceholders}

InitMapper ==
    /\ resolver = Null
    /\ op = "idle"
    /\ arg = <<>>
    /\ ret = <<>>
    /\ NoRun

MapTextPropsToOptions(textProps) ==
    /\ op = "idle"
    /\ op' = "mapTextPropsToOptions"
    /\ arg' = textProps
    /\ ret' = mapTextPropsToOptions(textProps)
    /\ UNCHANGED <<resolver, outputDir, step>>

ExtractSlideNumberFromShape(shape) ==
    /\ op = "idle"
    /\ op' = "extractSlideNumberFromShape"
    /\ arg' = shape
    /\ ret' = extractSlideNumberFromShape(shape)
    /\ UNCHANGED <<resolver, outputDir, step>>

MapSlideNumberAndFooters(placeholders) ==
    /\ op = "idle"
    /\ op' = "mapSlideNumberAndFooters"
    /\ arg' = placeholders
    /\ ret' = mapSlideNumberAndFooters(placeholders)
    /\ UNCHANGED <<resolver, outputDir, step>>

NextMapper ==
    \/ /\ op = "idle"
       /\ \E textProps \in TextPropSets : MapTextPropsToOptions(textProps)
    \/ /\ op = "idle"
       /\ \E shape \in TextBoxSets : ExtractSlideNumberFromShape(shape)
    \/ /\ op = "idle"
       /\ \E placeholders \in PlaceholderLists : MapSlideNumberAndFooters(placeholders)
    \/ Done

SpecMapper == InitMapper /\ [][NextMapper]_vars

----------------------------------------------------------------------------
(* properties of the slide-number and footer mapper *)

\* the <<paragraph, run>> places of a shape's content elements: breaks and
\* whitespace-only text runs left out, every field counted
ContentElements(shape) ==
    {pr \in (1..Len(shape.textProps.paragraphs)) \X (1..MaxRuns) :
        /\ Has(shape.textProps.paragraphs[pr[1]], "runs")
        /\ pr[2] <= Len(shape.textProps.paragraphs[pr[1]].runs)
        /\ ~Has(shape.textProps.paragraphs[pr[1]].runs[pr[2]], "isBreak")
        /\ \/ Has(shape.textProps.paragraphs[pr[1]].runs[pr[2]], "isField")
           \/ Trim(shape.textProps.paragraphs[pr[1]].runs[pr[2]].text) # <<>>}

ContentRunAt(shape, pr) == shape.textProps.paragraphs[pr[1]].runs[pr[2]]

\* C11: extractSlideNumberFromShape returns a slide number only for a shape
\* whose paragraphs, breaks and whitespace-only text ignored, hold exactly
\* one content element, and that element is a slide-number field.
C11_OnlyLoneSlideNumberField ==
    (op = "extractSlideNumberFromShape" /\ ret # Null) =>
        /\ Cardinality(ContentElements(arg)) = 1
        /\ \A pr \in ContentElements(arg) :
              NameOr(ContentRunAt(arg, pr), "fieldType", "") = "slidenum"

\* the slide number a call returned, Null when it returned none
ReturnedSlideNumber ==
    IF op = "extractSlideNumberFromShape" THEN ret
    ELSE IF op = "mapSlideNumberAndFooters" THEN ret.slideNumber
    ELSE Null

\* the placeholders of the call that are slide-number placeholders
SlideNumberPlaces == {i \in 1..Len(arg) : arg[i] # Null /\ NameOr(arg[i], "type", "") = "sldNum"}

\* the height the returned slide number had in the source
SourceHeight ==
    IF op = "extractSlideNumberFromShape" THEN PositionOrZero(arg).h
    ELSE PositionOrZero(arg[CHOOSE i \in SlideNumberPlaces : \A j \in SlideNumberPlaces : j <= i]).h

\* the resolved font size of a slide number, 8 points when it has none
ResolvedFontSize(slideNumber) ==
    IF Has(slideNumber, "fontSize") /\ slideNumber.fontSize # QInt(0)
    THEN slideNumber.fontSize ELSE QInt(8)

\* C12 (as stated): every slide number returned has h equal to the larger of
\* the source height and 2.5 x fontSize / 72 inches.
C12_HeightIsLargerOfSourceAndMinimum ==
    ReturnedSlideNumber # Null =>
        ReturnedSlideNumber.h =
            QMax(SourceHeight, QDiv(QMul(Q(5, 2), ResolvedFontSize(ReturnedSlideNumber)), QInt(72)))

\* C12: every slide number returned by mapSlideNumberAndFooters or
\* extractSlideNumberFromShape has h equal to the larger of the source
\* height and 2.5 x fontSize / 72 inches rounded to four decimal places
\* (fontSize its resolved font size, 8 when it has none or zero): h is never
\* lowered and never left below that rounded minimum.
C12_HeightIsLargerOfSourceAndRoundedMinimum ==
    ReturnedSlideNumber # Null =>
        /\ ReturnedSlideNumber.h =
              QMax(SourceHeight, MinHeight(ResolvedFontSize(ReturnedSlideNumber)))
        /\ ~QLt(ReturnedSlideNumber.h, SourceHeight)
        /\ ~QLt(ReturnedSlideNumber.h, MinHeight(ResolvedFontSize(ReturnedSlideNumber)))

\* a slide-number text box of 10 points whose height was raised
C12_Witness ==
    /\ op = "extractSlideNumberFromShape"
    /\ ret # Null
    /\ Has(ret, "fontSize") /\ ret.fontSize = QInt(10)
    /\ QLt(SourceHeight, ret.h)

\* missing or all-zero position
HasDegeneratePosition(ph) ==
    \/ ~Has(ph, "position")
    \/ ph.position = Null
    \/ ph.position = Inches(QInt(0), QInt(0), QInt(0), QInt(0))

\* the footer, date and header placeholders of the call that have text or a
\* position that is not degenerate
EmittedFooterPlaces ==
    {i \in 1..Len(arg) :
        /\ arg[i] # Null
        /\ NameOr(arg[i], "type", "") \in {"ftr", "dt", "hdr"}
        /\ (PlainTextOf(arg[i]) # <<>> \/ ~HasDegeneratePosition(arg[i]))}

\* C13: a footer, date or header placeholder is left out of footerObjects
\* exactly when its text is empty and its position is missing or all-zero:
\* over placeholders that all carry a type, footerObjects holds one object
\* per footer, date or header placeholder with text or with a position that
\* is not degenerate.
C13_FooterOmittedIffEmptyAndDegenerate ==
    (op = "mapSlideNumberAndFooters" /\ \A i \in 1..Len(arg) : arg[i] = Null \/ Has(arg[i], "type")) =>
        Len(ret.footerObjects) = Cardinality(EmittedFooterPlaces)

\* an empty footer kept for its position beside an empty one that is dropped
C13_Witness ==
    /\ op = "mapSlideNumberAndFooters"
    /\ Len(arg) = 2
    /\ \A i \in 1..2 : arg[i] # Null /\ NameOr(arg[i], "type", "") = "ftr" /\ PlainTextOf(arg[i]) = <<>>
    /\ HasDegeneratePosition(arg[1]) /\ ~HasDegeneratePosition(arg[2])
    /\ Len(ret.footerObjects) = 1

----------------------------------------------------------------------------
(* properties of mapTextPropsToOptions *)

HasFirstParagraph == op = "mapTextPropsToOptions" /\ arg # Null /\ arg.paragraphs # <<>>

\* C15: the align option is the first paragraph's explicit alignment when
\* one is stated, otherwise the list-style level's alignment when it defines
\* one, otherwise the paragraph's defaulted left.
C15_AlignPrecedence ==
    HasFirstParagraph =>
        /\ Has(ret, "align")
        /\ ret.align =
              IF Has(arg.paragraphs[1], "_explicitAlign") THEN arg.paragraphs[1]["_explicitAlign"]
              ELSE IF Has(LstLevel(arg), "align") THEN LstLevel(arg).align
              ELSE "left"

\* a paragraph without explicit alignment under a list style that centres
C15_Witness ==
    /\ HasFirstParagraph
    /\ ~Has(arg.paragraphs[1], "_explicitAlign")
    /\ arg.paragraphs[1].align = "left"
    /\ Has(LstLevel(arg), "align")
    /\ ret.align = "center"

\* paragraph default run properties, list-style default run properties,
\* first run: the sources of run styling in their order
StylingSources ==
    <<Get(arg.paragraphs[1], "defaultRunProps"),
      Get(LstLevel(arg), "defaultRunProps"),
      FirstRun(arg.paragraphs[1])>>

Specifying(k) == {i \in 1..3 : Has(StylingSources[i], k)}

FirstSpecified(k) == StylingSources[CHOOSE i \in Specifying(k) : \A j \in Specifying(k) : i <= j][k]

\* C16: font face, font size and colour take the value of the first source
\* that specifies them, in the order paragraph default run properties,
\* list-style default run properties, first run, and are unset when none
\* does; bold and italic are set exactly when the first source that specifies
\* them says true, so an explicit false at an earlier source is not replaced
\* by a later source and an absent value falls through.
C16_FirstSpecifiedSourceWins ==
    HasFirstParagraph =>
        /\ \A k \in {"fontFace", "fontSize", "color"} :
              IF Specifying(k) = {} THEN ~Has(ret, k)
              ELSE Has(ret, k) /\ ret[k] = FirstSpecified(k)
        /\ \A k \in {"bold", "italic"} :
              Has(ret, k) <=> (Specifying(k) # {} /\ FirstSpecified(k))

\* an explicit false of the paragraph default wins over a bold first run,
\* and an absent size falls through to the first run
C16_Witness ==
    /\ HasFirstParagraph
    /\ Has(StylingSources[1], "bold") /\ ~StylingSources[1].bold
    /\ Has(StylingSources[3], "bold") /\ StylingSources[3].bold
    /\ ~Has(ret, "bold")
    /\ ~Has(StylingSources[1], "fontSize") /\ ~Has(StylingSources[2], "fontSize")
    /\ Has(ret, "fontSize") /\ ret.fontSize = QInt(12)

----------------------------------------------------------------------------
(* preview.js: the limited-palette detection *)

\* hex.replace('#', ''): the first '#' taken out
RECURSIVE StripHash(_)
StripHash(hex) ==
    IF hex = <<>> THEN <<>>
    ELSE IF Head(hex) = "#" THEN Tail(hex)
    ELSE <<Head(hex)>> \o StripHash(Tail(hex))

\* r * 0.299 + g * 0.587 + b * 0.114 of the first six digits
Luma(rgb) == Q(299 * rgb[1] + 587 * rgb[2] + 114 * rgb[3], 1000)

hexBrightness(hex) ==
    IF hex = <<>> \/ Len(StripHash(hex)) < 6 THEN QInt(0)
    ELSE Luma(hexToRgb(StripHash(hex)))

accentSlots == <<"accent1", "accent2", "accent3", "accent4", "accent5", "accent6">>

\* accentSlots.map((s) => themeColors[s]).filter(Boolean)
RECURSIVE AccentsFrom(_, _)
AccentsFrom(themeColors, i) ==
    IF i > Len(accentSlots) THEN <<>>
    ELSE (IF Has(themeColors, accentSlots[i]) /\ themeColors[accentSlots[i]] # <<>>
          THEN <<themeColors[accentSlots[i]]>> ELSE <<>>)
         \o AccentsFrom(themeColors, i + 1)

\* b <= 245 && b >= 10
IsNonNeutral(hex) ==
    ~QGt(hexBrightness(hex), QInt(245)) /\ ~QLt(hexBrightness(hex), QInt(10))

RECURSIVE NonNeutral(_)
NonNeutral(accents) ==
    IF accents = <<>> THEN <<>>
    ELSE (IF IsNonNeutral(Head(accents)) THEN <<Head(accents)>> ELSE <<>>)
         \o NonNeutral(Tail(accents))

\* every value kept, repeated or not
RECURSIVE Unique_KeepAll(_, _)
Unique_KeepAll(values, seen) ==
    IF values = <<>> THEN seen ELSE Unique_KeepAll(Tail(values), Append(seen, Head(values)))

\* [...new Set(values)]: the values in the order of their first occurrence
RECURSIVE Unique(_, _)
Unique(values, seen) ==
    IF values = <<>> THEN seen
    ELSE Unique(Tail(values),
                IF \E i \in 1..Len(seen) : seen[i] = Head(values) THEN seen
                ELSE Append(seen, Head(values)))

PaletteResult(unique) == [isLimited |-> Len(unique) < 2, usableAccents |-> unique]

detectLimitedPalette(themeColors) ==
    IF themeColors = Null THEN [isLimited |-> FALSE, usableAccents |-> <<>>]
    ELSE PaletteResult(Unique(NonNeutral(AccentsFrom(themeColors, 1)), <<>>))

\* accent values of the themes: none, white, near-white and near-black on
\* either side of the two thresholds, colours, a lower-case and a prefixed
\* spelling, a string too short to be a colour
White == <<"F","F","F","F","F","F">>
Blue == <<"3","3","6","6","9","9">>
Red == <<"C","C","3","3","3","3">>

AccentValues == {<<>>, White, Blue, Red}

EdgeValues ==
    {<<"F","6","F","6","F","6">>, <<"F","4","F","4","F","4">>,
     <<"0","9","0","9","0","9">>, <<"0","B","0","B","0","B">>,
     <<"c","c","3","3","3","3">>, <<"#","3","3","6","6","9","9">>, <<"F","F","F">>}

\* a theme from the values of its six accents, an empty value leaving the
\* slot out
ThemeOfAccents(values) ==
    [s \in {accentSlots[i] : i \in {j \in 1..6 : values[j] # <<>>}} \cup {"dk1", "lt1"} |->
        IF s = "dk1" THEN <<"0","0","0","0","0","0">>
        ELSE IF s = "lt1" THEN White
        ELSE values[CHOOSE i \in 1..6 : accentSlots[i] = s]]

PaletteThemes ==
    {Null}
    \cup {ThemeOfAccents(values) : values \in [1..6 -> AccentValues]}
    \cup {ThemeOfAccents(<<a, b, <<>>, <<>>, <<>>, a>>) : a \in EdgeValues, b \in EdgeValues \cup {Blue}}

InitPalette ==
    /\ resolver = Null
    /\ op = "idle"
    /\ arg = <<>>
    /\ ret = <<>>
    /\ NoRun

DetectLimitedPalette(themeColors) ==
    /\ op = "idle"
    /\ op' = "detectLimitedPalette"
    /\ arg' = themeColors
    /\ ret' = detectLimitedPalette(themeColors)
    /\ UNCHANGED <<resolver, outputDir, step>>

NextPalette ==
    \/ /\ op = "idle"
       /\ \E themeColors \in PaletteThemes : DetectLimitedPalette(themeColors)
    \/ Done

SpecPalette == InitPalette /\ [][NextPalette]_vars

\* the distinct accent colours of a theme that remain once the accents
\* brighter than 245 or darker than 10 are left out, absent accents not
\* remaining
RemainingAccents(themeColors) ==
    {themeColors[s] : s \in {t \in {accentSlots[i] : i \in 1..6} :
                                /\ Has(themeColors, t)
                                /\ themeColors[t] # <<>>
                                /\ ~QGt(hexBrightness(themeColors[t]), QInt(245))
                                /\ ~QLt(hexBrightness(themeColors[t]), QInt(10))}}

ListsExactly(list, values) ==
    /\ {list[i] : i \in 1..Len(list)} = values
    /\ Len(list) = Cardinality(values)

\* C14 (as stated): for every theme-colours input isLimited is true exactly
\* when fewer than two distinct accent colours remain, and usableAccents
\* lists exactly the remaining distinct colours.
C14_LimitedIffFewerThanTwoRemain ==
    op = "detectLimitedPalette" =>
        /\ ret.isLimited <=> Cardinality(RemainingAccents(arg)) < 2
        /\ ListsExactly(ret.usableAccents, RemainingAccents(arg))

\* C14: for every theme-colours input that is not null, isLimited is true
\* exactly when fewer than two distinct accent colours remain after leaving
\* out the accents brighter than 245 or darker than 10, and usableAccents
\* lists exactly the remaining distinct colours; for a null input isLimited
\* is false and usableAccents is empty.
C14_LimitedIffFewerThanTwoRemainUnlessNull ==
    op = "detectLimitedPalette" =>
        IF arg = Null THEN ~ret.isLimited /\ ret.usableAccents = <<>>
        ELSE /\ ret.isLimited <=> Cardinality(RemainingAccents(arg)) < 2
             /\ ListsExactly(ret.usableAccents, RemainingAccents(arg))

\* six accents of one colour: limited with one usable accent
C14_Witness ==
    /\ op = "detectLimitedPalette"
    /\ arg # Null
    /\ \A i \in 1..6 : Has(arg, accentSlots[i]) /\ arg[accentSlots[i]] = Blue
    /\ ret.isLimited
    /\ ret.usableAccents = <<Blue>>

----------------------------------------------------------------------------
(* Fills, lines, static shapes and backgrounds: resolveFill, resolveLine,  *)
(* mapShape and mapBackground.  A warning is the sequence of the pieces of *)
(* its message: a fixed message is one piece, a template literal has the   *)
(* interpolated value as a piece of its own.                               *)

\* colorResolver?.resolve(el)
ResolveWith(colorResolver, el) ==
    IF colorResolver = Null THEN Null ELSE resolve(colorResolver, el)

\* { color: resolved.color } and transparency when resolved.transparency != null
ColorAndTransparency(resolved) ==
    [color |-> resolved.color] @@ OptValue(resolved, "transparency")

\* { color: resolved.color }
ColorOnly(resolved) == [color |-> resolved.color]

\* gsItems[0] of gsLst['a:gs'], none when the list is missing or empty
FirstStop(element) ==
    IF toArray(Get(Get(element, "a:gsLst"), "a:gs")) = <<>> THEN Null
    ELSE toArray(Get(Get(element, "a:gsLst"), "a:gs"))[1]

\* element?.['a:blip']?.['@_r:embed']
EmbedOf(element) == NameOr(Get(element, "a:blip"), "@_r:embed", "")

\* the colour element a fill of this kind is resolved from
FillColorElement(type, element) ==
    IF element = Null THEN Null
    ELSE IF type = "solidFill" THEN element
    ELSE IF type = "gradFill" THEN FirstStop(element)
    ELSE IF type = "pattFill" /\ Truthy(element, "a:fgClr") THEN element["a:fgClr"]
    ELSE Null

FillResult(result, warnings) == [result |-> result, warnings |-> warnings]

FillOfKind(type, element, resolved) ==
    IF type = "noFill" THEN FillResult(Null, <<>>)
    ELSE IF type = "solidFill"
         THEN IF resolved # Null THEN FillResult(ColorAndTransparency(resolved), <<>>)
              ELSE FillResult(Null, <<>>)
    ELSE IF type = "gradFill"
         THEN IF resolved # Null
              THEN FillResult(ColorAndTransparency(resolved),
                      <<<<"Gradient fill not fully supported, using first stop color as fallback">>>>)
              ELSE FillResult(Null, <<<<"Gradient fill not supported, could not resolve fallback color">>>>)
    ELSE IF type = "blipFill"
         THEN IF element # Null /\ EmbedOf(element) # ""
              THEN FillResult([imageRef |-> EmbedOf(element)], <<>>)
              ELSE FillResult(Null, <<<<"blipFill without image reference">>>>)
    ELSE IF type = "pattFill"
         THEN IF resolved # Null
              THEN FillResult(ColorOnly(resolved),
                      <<<<"Pattern fill not supported, using foreground color as fallback">>>>)
              ELSE FillResult(Null, <<<<"Pattern fill not supported">>>>)
    ELSE FillResult(Null, <<>>)

resolveFill(fill, colorResolver) ==
    IF fill = Null THEN FillResult(Null, <<>>)
    ELSE FillOfKind(fill.type, fill.element,
                    ResolveWith(colorResolver, FillColorElement(fill.type, fill.element)))

\* Math.round((emu / 12700) * 100) / 100
emuToPoints(emu) == Q(QRound(QMul(Q(emu, 12700), QInt(100))), 100)

DASH_TYPE_MAP ==
    [k \in {"solid", "dash", "dashDot", "lgDash", "lgDashDot", "lgDashDotDot",
            "sysDash", "sysDot", "sysDashDot", "sysDashDotDot", "dot"} |-> k]

ARROW_TYPE_MAP == [k \in {"none", "triangle", "stealth", "diamond", "oval", "arrow"} |-> k]

\* MAP[name] || name || dflt
MappedOr(map, name, dflt) ==
    IF Has(map, name) THEN map[name] ELSE IF name # "" THEN name ELSE dflt

LineWidth(lineEl) ==
    IF Has(lineEl, "@_w") THEN [width |-> emuToPoints(lineEl["@_w"])] ELSE <<>>

LineColorOf(resolved) == IF resolved # Null THEN [color |-> resolved.color] ELSE <<>>

LineColor(lineEl, colorResolver) ==
    IF Truthy(lineEl, "a:solidFill")
    THEN LineColorOf(ResolveWith(colorResolver, lineEl["a:solidFill"]))
    ELSE <<>>

LineDash(lineEl) ==
    IF Truthy(lineEl, "a:prstDash")
    THEN [dashType |-> MappedOr(DASH_TYPE_MAP, NameOr(lineEl["a:prstDash"], "@_val", ""), "solid")]
    ELSE <<>>

\* the arrow of a:headEnd or a:tailEnd, left out for no type and for 'none'
LineArrow(lineEl, tag, key) ==
    IF Truthy(lineEl, tag) /\ NameOr(lineEl[tag], "@_type", "") \notin {"", "none"}
    THEN (key :> MappedOr(ARROW_TYPE_MAP, lineEl[tag]["@_type"], ""))
    ELSE <<>>

LineProps(lineEl, colorResolver) ==
    LineWidth(lineEl) @@ LineColor(lineEl, colorResolver) @@ LineDash(lineEl)
    @@ LineArrow(lineEl, "a:headEnd", "beginArrowType")
    @@ LineArrow(lineEl, "a:tailEnd", "endArrowType")

\* hasProps ? result : null
resolveLine(lineEl, colorResolver) ==
    IF lineEl = Null \/ lineEl = EmptyElement THEN Null
    ELSE NonEmptyOrNull(LineProps(lineEl, colorResolver))

\* relationships?.[rId]
RelationshipOf(relationships, rId) ==
    IF relationships = Null THEN Null
    ELSE IF Has(relationships, rId) THEN relationships[rId]
    ELSE Null

\* `./media/${rel.target.split('/').pop()}`, the target held as its segments
MediaPath(rel) == <<"./media/", rel.target[Len(rel.target)]>>

\* parsedShape.position || {}
PositionOrEmpty(parsedShape) ==
    IF Has(parsedShape, "position") /\ parsedShape.position # Null THEN parsedShape.position ELSE <<>>

\* x: pos.x, y: pos.y, w: pos.w, h: pos.h
PlaceOf(pos) == OptValue(pos, "x") @@ OptValue(pos, "y") @@ OptValue(pos, "w") @@ OptValue(pos, "h")

\* if (parsedShape.rotation) obj.rotate = parsedShape.rotation
RotateOf(parsedShape) ==
    IF Has(parsedShape, "rotation") /\ parsedShape.rotation # 0
    THEN [rotate |-> parsedShape.rotation]
    ELSE <<>>

\* o[k], undefined and null alike read as null
FieldOrNull(o, k) == IF Has(o, k) THEN o[k] ELSE Null

\* if (fillResult && fillResult.color) obj.fill = fillResult
KeptFill(fillResult) ==
    IF fillResult # Null /\ Has(fillResult, "color") THEN [fill |-> fillResult] ELSE <<>>

\* if (lineResult) obj.line = lineResult
KeptLine(lineResult) == IF lineResult # Null THEN [line |-> lineResult] ELSE <<>>

\* the text of one paragraph's runs, a break run giving a newline
RECURSIVE ParaText(_)
ParaText(runs) ==
    IF runs = <<>> THEN <<>>
    ELSE (IF Has(Head(runs), "isBreak") /\ Head(runs).isBreak THEN <<"\n">>
          ELSE IF Has(Head(runs), "text") THEN Head(runs).text
          ELSE <<>>) \o ParaText(Tail(runs))

RECURSIVE ParaLines(_)
ParaLines(paragraphs) ==
    IF paragraphs = <<>> THEN <<>>
    ELSE <<IF Has(Head(paragraphs), "runs") THEN ParaText(Head(paragraphs).runs) ELSE <<>>>>
         \o ParaLines(Tail(paragraphs))

flattenTextContent(textProps) ==
    IF ~Has(textProps, "paragraphs") \/ textProps.paragraphs = <<>>
    THEN stripEditInstructions(textProps.plainText)
    ELSE stripEditInstructions(JoinLines(ParaLines(textProps.paragraphs)))

ShapeResult(object, warnings) == [object |-> object, warnings |-> warnings]

ImageObject(parsedShape, rel) ==
    PlaceOf(PositionOrEmpty(parsedShape)) @@ [path |-> MediaPath(rel)] @@ RotateOf(parsedShape)

\* lineObj.line is set when lineProps has a colour or any other key
LineObject(parsedShape, lineResult) ==
    PlaceOf(PositionOrEmpty(parsedShape)) @@ KeptLine(lineResult) @@ RotateOf(parsedShape)

TextObject(parsedShape, fillResult, lineResult) ==
    [text |-> flattenTextContent(parsedShape.textProps),
     options |-> PlaceOf(PositionOrEmpty(parsedShape)) @@ KeptFill(fillResult)
                 @@ KeptLine(lineResult) @@ RotateOf(parsedShape)
                 @@ mapTextPropsToOptions(parsedShape.textProps)]

\* pos.w || 1
SideOr1(pos, k) == IF Has(pos, k) /\ pos[k] # QInt(0) THEN pos[k] ELSE QInt(1)

\* Math.round((adj / 100000) * minDim * 100) / 100 || 0.1
RadiusOr(r) == IF r = 0 THEN Q(1, 10) ELSE Q(r, 100)

RectRadius(parsedShape) ==
    IF NameOr(parsedShape, "geometry", "") # "roundRect" THEN <<>>
    ELSE IF FieldOrNull(parsedShape, "avLst") # Null /\ Has(parsedShape.avLst, "adj")
         THEN [rectRadius |->
                  RadiusOr(QRound(QMul(QMul(Q(parsedShape.avLst.adj, 100000),
                                            QMin(SideOr1(PositionOrEmpty(parsedShape), "w"),
                                                 SideOr1(PositionOrEmpty(parsedShape), "h"))),
                                       QInt(100))))]
    ELSE [rectRadius |-> Q(1, 10)]

RectObject(parsedShape, fillResult, lineResult) ==
    PlaceOf(PositionOrEmpty(parsedShape)) @@ KeptFill(fillResult) @@ KeptLine(lineResult)
    @@ RectRadius(parsedShape) @@ RotateOf(parsedShape)

IsPictureWithRef(parsedShape) ==
    NameOr(parsedShape, "type", "") = "picture" /\ NameOr(parsedShape, "imageRef", "") # ""

\* the warning of a picture whose relationship is missing
PictureWarnings(parsedShape, relationships) ==
    IF IsPictureWithRef(parsedShape)
    THEN <<<<"Could not resolve image reference ", parsedShape.imageRef>>>>
    ELSE <<>>

HasPlainText(parsedShape) ==
    /\ FieldOrNull(parsedShape, "textProps") # Null
    /\ Has(parsedShape.textProps, "plainText")
    /\ parsedShape.textProps.plainText # <<>>

\* the branches after the picture branch: line, text box, rectangle
ShapeObject(parsedShape, before, fillResult, lineResult) ==
    IF NameOr(parsedShape, "geometry", "") = "line"
    THEN ShapeResult([line |-> LineObject(parsedShape, lineResult)], before)
    ELSE IF HasPlainText(parsedShape)
    THEN ShapeResult([text |-> TextObject(parsedShape, fillResult.result, lineResult)],
                     before \o fillResult.warnings)
    ELSE ShapeResult([rect |-> RectObject(parsedShape, fillResult.result, lineResult)],
                     before \o fillResult.warnings)

mapShape(parsedShape, colorResolver, relationships) ==
    IF parsedShape = Null THEN ShapeResult(Null, <<<<"Null shape provided">>>>)
    ELSE IF IsPictureWithRef(parsedShape)
            /\ RelationshipOf(relationships, parsedShape.imageRef) # Null
    THEN ShapeResult([image |-> ImageObject(parsedShape,
                                   RelationshipOf(relationships, parsedShape.imageRef))], <<>>)
    ELSE ShapeObject(parsedShape,
                     PictureWarnings(parsedShape, relationships),
                     resolveFill(FieldOrNull(parsedShape, "fill"), colorResolver),
                     resolveLine(FieldOrNull(parsedShape, "line"), colorResolver))

BackgroundResult(background, warnings) == [background |-> background, warnings |-> warnings]

\* the kind of background the element holds, in the order the code tests them
BackgroundKind(bgElement) ==
    IF Truthy(bgElement, "bgRef") THEN "bgRef"
    ELSE IF Truthy(bgElement, "a:solidFill") THEN "a:solidFill"
    ELSE IF Truthy(bgElement, "a:blipFill") THEN "a:blipFill"
    ELSE IF Truthy(bgElement, "a:gradFill") THEN "a:gradFill"
    ELSE IF Truthy(bgElement, "a:pattFill") THEN "a:pattFill"
    ELSE "none"

\* the colour element a background of this kind is resolved from
BackgroundColorElement(kind, bgElement) ==
    IF kind \in {"bgRef", "a:solidFill"} THEN bgElement[kind]
    ELSE IF kind = "a:gradFill" THEN FirstStop(bgElement[kind])
    ELSE IF kind = "a:pattFill" /\ Truthy(bgElement[kind], "a:fgClr") THEN bgElement[kind]["a:fgClr"]
    ELSE Null

BackgroundOfKind(kind, bgElement, resolved, relationships) ==
    IF kind = "bgRef"
    THEN IF resolved # Null THEN BackgroundResult(ColorAndTransparency(resolved), <<>>)
         ELSE BackgroundResult(Null, <<<<"bgRef (theme format scheme reference) not fully supported">>>>)
    ELSE IF kind = "a:solidFill"
    THEN IF resolved # Null THEN BackgroundResult(ColorAndTransparency(resolved), <<>>)
         ELSE BackgroundResult(Null, <<>>)
    ELSE IF kind = "a:blipFill"
    THEN IF EmbedOf(bgElement[kind]) # ""
            /\ RelationshipOf(relationships, EmbedOf(bgElement[kind])) # Null
         THEN BackgroundResult(
                 [path |-> MediaPath(RelationshipOf(relationships, EmbedOf(bgElement[kind])))], <<>>)
         ELSE BackgroundResult(Null, <<<<"Background image reference could not be resolved">>>>)
    ELSE IF kind = "a:gradFill"
    THEN IF resolved # Null
         THEN BackgroundResult(ColorOnly(resolved),
                 <<<<"Gradient background not fully supported, using first stop color as fallback">>>>)
         ELSE BackgroundResult(Null, <<<<"Gradient background not supported">>>>)
    ELSE IF kind = "a:pattFill"
    THEN IF resolved # Null
         THEN BackgroundResult(ColorOnly(resolved),
                 <<<<"Pattern background not supported, using foreground color as fallback">>>>)
         ELSE BackgroundResult(Null, <<<<"Pattern background not supported">>>>)
    ELSE BackgroundResult(Null, <<>>)

mapBackground(bgElement, colorResolver, relationships) ==
    IF bgElement = Null \/ bgElement = EmptyElement THEN BackgroundResult(Null, <<>>)
    ELSE BackgroundOfKind(BackgroundKind(bgElement), bgElement,
                          ResolveWith(colorResolver,
                                      BackgroundColorElement(BackgroundKind(bgElement), bgElement)),
                          relationships)

----------------------------------------------------------------------------
(* fills, lines, shapes, backgrounds and relationship maps the mappers are *)
(* run on                                                                  *)

RedHex == Hex("F","F","0","0","0","0")

\* colour containers: opaque, half transparent, through the theme, unknown
\* scheme name, and one with no colour child
StopColors ==
    {Wrap("a:srgbClr", ValEl(RedHex)),
     Wrap("a:srgbClr", ValEl(RedHex) @@ Wrap("a:alpha", ValEl(50000))),
     Wrap("a:schemeClr", ValEl("accent1")),
     Wrap("a:schemeClr", ValEl("accent2") @@ Wrap("a:alpha", ValEl(0))),
     Wrap("a:extLst", ValEl("x"))}

RelationshipIds == {"rId2", "rId9"}

\* the element of a fill of each kind
FillElements(type) ==
    IF type = "solidFill" THEN StopColors \cup {EmptyElement}
    ELSE IF type = "gradFill"
    THEN {EmptyElement, Wrap("a:gsLst", EmptyElement), Wrap("a:lin", ValEl("5400000"))}
         \cup {Wrap("a:gsLst", Wrap("a:gs", c)) : c \in StopColors}
         \cup {Wrap("a:gsLst", Wrap("a:gs", Arr(<<c, Wrap("a:srgbClr", ValEl(BLACK))>>))) : c \in StopColors}
    ELSE IF type = "blipFill"
    THEN {EmptyElement, Wrap("a:blip", EmptyElement)}
         \cup {Wrap("a:blip", Wrap("@_r:embed", rId)) : rId \in RelationshipIds}
    ELSE IF type = "pattFill"
    THEN {EmptyElement, Wrap("a:bgClr", Wrap("a:srgbClr", ValEl(RedHex)))}
         \cup {Wrap("a:fgClr", c) : c \in StopColors}
    ELSE {EmptyElement}

FillKinds == {"solidFill", "gradFill", "blipFill", "pattFill", "noFill"}

\* fills as extractShapeProps leaves them
Fills ==
    {Null} \cup UNION {{[type |-> type, element |-> element] : element \in FillElements(type)} :
                          type \in FillKinds}

\* a:ln elements
LineElements ==
    {Null,
     Wrap("@_w", 12700),
     Wrap("@_w", 9525) @@ Wrap("a:solidFill", Wrap("a:srgbClr", ValEl(RedHex)))
                       @@ Wrap("a:prstDash", ValEl("dash")),
     Wrap("a:solidFill", Wrap("a:schemeClr", ValEl("accent1"))),
     Wrap("a:prstDash", ValEl("fancy")) @@ Wrap("a:tailEnd", Wrap("@_type", "triangle")),
     Wrap("a:prstDash", Wrap("@_cap", "rnd")) @@ Wrap("a:headEnd", Wrap("@_type", "none")),
     Wrap("a:headEnd", Wrap("@_type", "barbed")) @@ Wrap("a:tailEnd", EmptyElement),
     Wrap("a:round", EmptyElement)}

\* resolved relationships: none passed, none present, one image
RelationshipMaps ==
    {Null, <<>>, Wrap("rId2", [type |-> "image", target |-> <<"..", "media", "image1.png">>])}

ShapePositions == {Null, Inches(QInt(1), QInt(2), QInt(3), Q(1, 2)), Inches(QInt(0), QInt(0), QInt(0), QInt(4))}

\* pictures as processNonPlaceholderShapes leaves them
PictureShapes ==
    {WithPosition([type |-> "picture", name |-> "Picture 3", fill |-> Null, line |-> Null,
                   textProps |-> Null] @@ ref @@ rot, pos) :
        ref \in {<<>>} \cup {[imageRef |-> rId] : rId \in RelationshipIds},
        rot \in {<<>>, [rotation |-> 90]},
        pos \in ShapePositions}

ShapeTexts ==
    {Null,
     FooterTextProps(<<"H","i">>),
     [paragraphs |-> <<>>, plainText |-> <<"[","T","o"," ","E","d","i","t",","," ","x","]","\n","A","B"," ">>],
     [paragraphs |-> <<[runs |-> <<[text |-> <<"A">>], [text |-> <<"\n">>, isBreak |-> TRUE],
                                   [text |-> <<"B">>]>>],
                       [align |-> "left"],
                       [runs |-> <<[text |-> <<"C">>]>>]>>,
      plainText |-> <<"A","B","C">>],
     [paragraphs |-> <<[runs |-> <<[text |-> <<>>]>>]>>, plainText |-> <<>>]}

\* shapes and connectors: every fill on a rectangle, every line on a line
\* shape, texts and rounded corners
PlainShapes ==
    {[type |-> "shape", geometry |-> "rect", position |-> Inches(QInt(1), QInt(2), QInt(3), Q(1, 2)),
      fill |-> fill, line |-> Null, textProps |-> tp] :
        fill \in Fills, tp \in {Null, FooterTextProps(<<"H","i">>)}}
    \cup {WithPosition([type |-> "shape", geometry |-> geometry, fill |-> Null, line |-> line,
                        textProps |-> Null], pos) :
             geometry \in {"line", "rect"}, line \in LineElements, pos \in ShapePositions}
    \cup {WithPosition([type |-> "shape", fill |-> [type |-> "solidFill",
                                                    element |-> Wrap("a:srgbClr", ValEl(RedHex))],
                        line |-> Wrap("@_w", 12700), textProps |-> tp] @@ rot, pos) :
             tp \in ShapeTexts, rot \in {<<>>, [rotation |-> 0], [rotation |-> 45]},
             pos \in ShapePositions}
    \cup {WithPosition([type |-> "shape", geometry |-> "roundRect", fill |-> Null, line |-> Null,
                        textProps |-> Null] @@ av, pos) :
             av \in {<<>>, [avLst |-> Null], [avLst |-> <<>>], [avLst |-> [adj |-> 16667]],
                     [avLst |-> [adj |-> 0]], [avLst |-> [adj |-> 50000]]},
             pos \in ShapePositions}
    \cup {[type |-> "picture", imageRef |-> "rId9", geometry |-> "line", line |-> Wrap("@_w", 12700)],
          [type |-> "picture", imageRef |-> "rId9",
           fill |-> [type |-> "gradFill", element |-> EmptyElement]]}

ParsedShapes == {Null} \cup PictureShapes \cup PlainShapes

FillTagOf(type) == "a:" \o type

\* background elements as extractBackground leaves them: p:bgPr with one
\* fill child, or the bgRef wrapper
BackgroundElements ==
    {Null, Wrap("a:effectLst", EmptyElement)}
    \cup UNION {{Wrap(FillTagOf(type), element) : element \in FillElements(type)} : type \in FillKinds}
    \cup {[bgRef |-> c] : c \in StopColors}

InitFill ==
    /\ resolver \in LayoutResolvers
    /\ op = "idle"
    /\ arg = <<>>
    /\ ret = <<>>
    /\ NoRun

ResolveFill(fill) ==
    /\ op = "idle"
    /\ op' = "resolveFill"
    /\ arg' = [fill |-> fill]
    /\ ret' = resolveFill(fill, resolver)
    /\ UNCHANGED <<resolver, outputDir, step>>

ResolveLine(lineEl) ==
    /\ op = "idle"
    /\ op' = "resolveLine"
    /\ arg' = [lineEl |-> lineEl]
    /\ ret' = [line |-> resolveLine(lineEl, resolver)]
    /\ UNCHANGED <<resolver, outputDir, step>>

MapShape(parsedShape, relationships) ==
    /\ op = "idle"
    /\ op' = "mapShape"
    /\ arg' = [parsedShape |-> parsedShape, relationships |-> relationships]
    /\ ret' = mapShape(parsedShape, resolver, relationships)
    /\ UNCHANGED <<resolver, outputDir, step>>

MapBackground(bgElement, relationships) ==
    /\ op = "idle"
    /\ op' = "mapBackground"
    /\ arg' = [bgElement |-> bgElement, relationships |-> relationships]
    /\ ret' = mapBackground(bgElement, resolver, relationships)
    /\ UNCHANGED <<resolver, outputDir, step>>

NextFill ==
    \/ /\ op = "idle"
       /\ \E fill \in Fills : ResolveFill(fill)
    \/ /\ op = "idle"
       /\ \E lineEl \in LineElements : ResolveLine(lineEl)
    \/ /\ op = "idle"
       /\ \E parsedShape \in ParsedShapes, relationships \in RelationshipMaps :
             MapShape(parsedShape, relationships)
    \/ /\ op = "idle"
       /\ \E bgElement \in BackgroundElements, relationships \in RelationshipMaps :
             MapBackground(bgElement, relationships)
    \/ Done

SpecFill == InitFill /\ [][NextFill]_vars

----------------------------------------------------------------------------
(* Broken image references *)

\* the warning names the relationship ID: the ID is one of its pieces
Names(warning, rId) == \E i \in 1..Len(warning) : warning[i] = rId

NamedIn(warnings, rId) == \E i \in 1..Len(warnings) : Names(warnings[i], rId)

\* the relationship ID an image fill refers to, "" for any other fill
ImageFillRef(fill) ==
    IF fill # Null /\ fill.type = "blipFill" /\ fill.element # Null THEN EmbedOf(fill.element) ELSE ""

\* the relationship IDs the mapped element refers to as picture, image fill
\* or image background
ImageRefs ==
    IF op = "mapShape" /\ arg.parsedShape # Null
    THEN {NameOr(arg.parsedShape, "imageRef", ""),
          ImageFillRef(FieldOrNull(arg.parsedShape, "fill"))} \ {""}
    ELSE IF op = "mapBackground" /\ arg.bgElement # Null /\ Truthy(arg.bgElement, "a:blipFill")
    THEN {EmbedOf(arg.bgElement["a:blipFill"])} \ {""}
    ELSE {}

BrokenImageRefs ==
    {rId \in ImageRefs : RelationshipOf(arg.relationships, rId) = Null}

\* C17: whenever a picture shape, an image fill on a shape, or an image
\* background refers to a relationship ID the relationships map lacks, the
\* returned warnings hold an entry naming that ID (so the warnings are never
\* empty for such a reference).
C17_BrokenImageReferenceNamed ==
    \A rId \in BrokenImageRefs : NamedIn(ret.warnings, rId)

----------------------------------------------------------------------------
(* Backgrounds against shape fills *)

ComparedKinds == {"solidFill", "gradFill", "pattFill", "noFill"}

\* the background element holds exactly one fill child, of this kind
IsBackgroundOfKind(type) ==
    /\ op = "mapBackground"
    /\ arg.bgElement # Null
    /\ DOMAIN arg.bgElement = {FillTagOf(type)}

\* what resolveFill gives for the fill child of the background element
AsShapeFill(type) ==
    resolveFill([type |-> type, element |-> arg.bgElement[FillTagOf(type)]], resolver)

\* colour and transparency of a mapped fill or background, none for null
ColourOf(result) == IF result = Null THEN <<>> ELSE OptValue(result, "color")
TransparencyOf(result) == IF result = Null THEN <<>> ELSE OptValue(result, "transparency")

\* C18: for a solid, gradient, pattern or no-fill background, mapBackground
\* gives the colour and the transparency resolveFill gives for the same fill
\* element and resolver, and its warnings are non-empty exactly when those
\* of resolveFill are.
C18_BackgroundMatchesResolveFill ==
    \A type \in ComparedKinds :
        IsBackgroundOfKind(type) =>
            /\ ColourOf(ret.background) = ColourOf(AsShapeFill(type).result)
            /\ TransparencyOf(ret.background) = TransparencyOf(AsShapeFill(type).result)
            /\ (ret.warnings # <<>>) <=> (AsShapeFill(type).warnings # <<>>)

----------------------------------------------------------------------------
(* The parsers on missing input: parseRelationships, parseSlideMaster,     *)
(* parseSlideLayout and parsePresentation.  A call either returns a value  *)
(* or throws the TypeError of a property read on null or undefined; every  *)
(* plain read o[k] of the code is listed with the value o it reads from.   *)

\* a parameter the caller left out, or the result of reading a missing key
Undefined == [undefined |-> TRUE]

TypeError == [threw |-> "TypeError"]

\* if (!v)
Falsy(v) == v = Null \/ v = Undefined \/ v = EmptyElement

\* o?.[k]
OptionalRead(o, k) == IF o = Null \/ o = Undefined THEN Undefined ELSE IF Has(o, k) THEN o[k] ELSE Undefined

\* v without the || {} default
OrObject_NoDefault(v) == v

\* v || {}
OrObject(v) == IF Falsy(v) THEN EmptyElement ELSE v

\* o[k] || {} of a value o that can be read
ReadOrObject(o, k) == OrObject(OptionalRead(o, k))

\* a plain read from one of these values throws
Unreadable(receivers) == \E i \in 1..Len(receivers) : receivers[i] = Null \/ receivers[i] = Undefined

\* the document as the operators on present input take it
Present(v) == IF Falsy(v) THEN EmptyElement ELSE v

\* typeUrl.slice(typeUrl.lastIndexOf('/') + 1), the URL held as its segments
LastSegment(typeUrl) == IF typeUrl = <<>> THEN "" ELSE typeUrl[Len(typeUrl)]

\* result[id] = { type, target }; a missing Id is the key 'undefined'
RelationshipEntry(rel) ==
    (IF Has(rel, "@_Id") THEN rel["@_Id"] ELSE "undefined")
        :> [type |-> LastSegment(Get(rel, "@_Type")), target |-> Get(rel, "@_Target")]

\* the loop: a later item replaces an earlier one with the same Id
RECURSIVE RelationshipEntries(_)
RelationshipEntries(items) ==
    IF items = <<>> THEN <<>>
    ELSE RelationshipEntry(items[Len(items)]) @@ RelationshipEntries(SubSeq(items, 1, Len(items) - 1))

\* Array.isArray(rels) ? rels : [rels], for rels that is not falsy
ItemsOf(rels) == IF IsArray(rels) THEN rels.array ELSE <<rels>>

\* the values parseRelationships reads from: the root, then every item
RelationshipReads(root) ==
    <<root>> \o (IF Falsy(OptionalRead(root, "Relationship")) THEN <<>>
                 ELSE ItemsOf(root["Relationship"]))

parseRelationships(relsXml) ==
    IF Falsy(OptionalRead(relsXml, "Relationships")) THEN <<>>
    ELSE IF Unreadable(RelationshipReads(relsXml["Relationships"])) THEN TypeError
    ELSE IF Falsy(OptionalRead(relsXml["Relationships"], "Relationship")) THEN <<>>
    ELSE RelationshipEntries(ItemsOf(relsXml["Relationships"]["Relationship"]))

\* Number(sldSz[k] || dflt): an attribute is a string, so "0" is kept
SizeOr(sldSz, k, dflt) == IF Has(sldSz, k) THEN sldSz[k] ELSE dflt

DefaultDimensions == [width |-> QInt(10), height |-> Q(15, 2)]

parsePresentation(presentationXml) ==
    IF Falsy(OptionalRead(presentationXml, "p:presentation")) THEN DefaultDimensions
    ELSE IF Falsy(OptionalRead(presentationXml["p:presentation"], "p:sldSz")) THEN DefaultDimensions
    ELSE [width |-> emuToInches(SizeOr(presentationXml["p:presentation"]["p:sldSz"], "@_cx", 9144000)),
          height |-> emuToInches(SizeOr(presentationXml["p:presentation"]["p:sldSz"], "@_cy", 6858000))]

\* options?.colorResolver || null, options?.masterDefaults || null
OptionOf(options, k) ==
    IF Falsy(OptionalRead(options, k)) THEN Null ELSE options[k]

OptionsOf(options) ==
    [colorResolver |-> OptionOf(options, "colorResolver"),
     masterDefaults |-> OptionOf(options, "masterDefaults")]

\* the values processShape and processPicture read from: the element, then
\* nvSpPr || {}, cNvPr || {}, spPr || {} (and blipFill || {} of a picture)
ShapeReads(sp, nvTag) ==
    <<sp, ReadOrObject(sp, nvTag), ReadOrObject(ReadOrObject(sp, nvTag), "p:cNvPr"),
      ReadOrObject(sp, "p:spPr")>>
    \o (IF nvTag = "p:nvPicPr" THEN <<ReadOrObject(sp, "p:blipFill")>> ELSE <<>>)

RECURSIVE ShapeListReads(_, _)
ShapeListReads(items, nvTag) ==
    IF items = <<>> THEN <<>>
    ELSE ShapeReads(Head(items), nvTag) \o ShapeListReads(Tail(items), nvTag)

\* the values parseSlideLayout reads from once the root is there: the
\* root, cSld || {}, spTree || {}, then the shapes and the pictures
LayoutReads(layout) ==
    <<layout, ReadOrObject(layout, "p:cSld"),
      ReadOrObject(ReadOrObject(layout, "p:cSld"), "p:spTree")>>
    \o ShapeListReads(toArray(Present(OptionalRead(
           ReadOrObject(ReadOrObject(layout, "p:cSld"), "p:spTree"), "p:sp"))), "p:nvSpPr")
    \o ShapeListReads(toArray(Present(OptionalRead(
           ReadOrObject(ReadOrObject(layout, "p:cSld"), "p:spTree"), "p:pic"))), "p:nvPicPr")

\* the record with the relationships the call returns; the missing-root
\* record holds none whatever layoutRels is
LayoutReturn(layoutXml, layoutRels, options) ==
    IF Falsy(OptionalRead(layoutXml, "p:sldLayout")) THEN EmptyLayout @@ [relationships |-> <<>>]
    ELSE IF Unreadable(LayoutReads(layoutXml["p:sldLayout"])) THEN TypeError
    ELSE IF parseRelationships(layoutRels) = TypeError THEN TypeError
    ELSE parseSlideLayout(layoutXml, OptionsOf(options))
         @@ [relationships |-> parseRelationships(layoutRels)]

\* title: txStyles['p:titleStyle'] || null, and so on
StyleOrNull(txStyles, k) == IF Truthy(txStyles, k) THEN txStyles[k] ELSE Null

extractTextStyles(txStyles) ==
    IF Falsy(txStyles) THEN [title |-> Null, body |-> Null, other |-> Null]
    ELSE [title |-> StyleOrNull(txStyles, "p:titleStyle"),
          body |-> StyleOrNull(txStyles, "p:bodyStyle"),
          other |-> StyleOrNull(txStyles, "p:otherStyle")]

\* the shape items the master's two passes read from: falsy elements are
\* skipped, group shapes and the rest are not read
RECURSIVE MasterShapeReads(_)
MasterShapeReads(shapes) ==
    IF shapes = <<>> THEN <<>>
    ELSE (IF Falsy(Head(shapes).element) \/ Head(shapes).type \notin {"p:sp", "p:pic"} THEN <<>>
          ELSE ShapeReads(Head(shapes).element,
                          IF Head(shapes).type = "p:sp" THEN "p:nvSpPr" ELSE "p:nvPicPr"))
         \o MasterShapeReads(Tail(shapes))

\* the values parseSlideMaster reads from once the root is there; cSld is
\* read with cSld?.[...] only
MasterReads(master) ==
    <<master>>
    \o MasterShapeReads(extractShapeTree(Present(OptionalRead(OptionalRead(master, "p:cSld"), "p:spTree"))))

MasterReturn(masterXml, masterRels, options) ==
    IF Falsy(OptionalRead(masterXml, "p:sldMaster"))
    THEN EmptyMaster @@ [textStyles |-> extractTextStyles(Undefined), relationships |-> <<>>]
    ELSE IF Unreadable(MasterReads(masterXml["p:sldMaster"])) THEN TypeError
    ELSE IF parseRelationships(masterRels) = TypeError THEN TypeError
    ELSE parseSlideMaster(masterXml, OptionsOf(options).colorResolver)
         @@ [textStyles |-> extractTextStyles(OptionalRead(masterXml["p:sldMaster"], "p:txStyles")),
             relationships |-> parseRelationships(masterRels)]

----------------------------------------------------------------------------
(* documents with missing parts *)

\* no document at all, in the ways a caller can pass none
MissingDocuments == {Null, Undefined, EmptyElement}

RelationshipElements ==
    {EmptyElement,
     [k \in {"@_Id", "@_Type", "@_Target"} |->
         IF k = "@_Id" THEN "rId1"
         ELSE IF k = "@_Type" THEN <<"http:", "", "schemas", "relationships", "slideLayout">>
         ELSE <<"..", "slideLayouts", "slideLayout1.xml">>],
     [k \in {"@_Id", "@_Type", "@_Target"} |->
         IF k = "@_Id" THEN "rId2"
         ELSE IF k = "@_Type" THEN <<"image">>
         ELSE <<"..", "media", "image1.png">>],
     [k \in {"@_Id", "@_Target"} |-> IF k = "@_Id" THEN "rId2" ELSE <<"media", "image2.png">>],
     Wrap("@_Target", <<"x.xml">>),
     Wrap("@_Id", "rId3")}

RelationshipDocs ==
    MissingDocuments
    \cup {Wrap("?xml", EmptyElement), Wrap("Relationships", EmptyElement),
          Wrap("Relationships", Wrap("@_xmlns", "r"))}
    \cup {Wrap("Relationships", Wrap("Relationship", rel)) : rel \in RelationshipElements \ {EmptyElement}}
    \cup {Wrap("Relationships", Wrap("Relationship", Arr(<<r1, r2>>))) :
             r1 \in RelationshipElements, r2 \in RelationshipElements}

PresentationDocs ==
    MissingDocuments
    \cup {Wrap("p:presentation", EmptyElement), Wrap("p:presentation", Wrap("p:sldSz", EmptyElement)),
          Wrap("p:presentation", Wrap("p:notesSz", Wrap("@_cx", 6858000)))}
    \cup {Wrap("p:presentation", Wrap("p:sldSz", size)) :
             size \in {Wrap("@_cx", 12192000) @@ Wrap("@_cy", 6858000),
                       Wrap("@_cx", 9144000) @@ Wrap("@_cy", 5143500),
                       Wrap("@_cx", 12192000), Wrap("@_cy", 0), Wrap("@_type", "screen4x3")}}

\* layouts with the root, the slide data, the tree, a shape or parts of a
\* shape missing
SparseLayouts ==
    {Undefined, EmptyElement, Wrap("p:sldMaster", EmptyElement),
     Wrap("p:sldLayout", Wrap("@_name", "Bare")),
     Wrap("p:sldLayout", Wrap("p:cSld", EmptyElement)),
     Wrap("p:sldLayout", Wrap("p:cSld", Wrap("@_name", "Named") @@ Wrap("p:bg", EmptyElement))),
     Wrap("p:sldLayout", Wrap("p:cSld", Wrap("p:spTree", EmptyElement)) @@ Wrap("p:clrMapOvr", EmptyElement)),
     LayoutXml(<<>>, EmptyElement, Wrap("p:sp", Arr(<<EmptyElement, EmptyElement>>))
                                   @@ Wrap("p:pic", Arr(<<EmptyElement, Wrap("p:nvPicPr", EmptyElement)>>))),
     LayoutXml(<<>>, EmptyElement, Wrap("p:sp", Wrap("p:nvSpPr", EmptyElement))),
     LayoutXml(<<>>, EmptyElement, Wrap("p:sp", Wrap("p:nvSpPr", Wrap("p:nvPr", Wrap("p:ph", EmptyElement))))),
     LayoutXml(<<>>, EmptyElement, Wrap("p:sp", Wrap("p:spPr", Wrap("a:xfrm", EmptyElement)))),
     LayoutXml(<<>>, EmptyElement, Wrap("p:pic", Wrap("p:blipFill", Wrap("a:blip", EmptyElement))))}

SparseMasters ==
    {Null, Undefined, EmptyElement, Wrap("p:sldLayout", EmptyElement), Wrap("p:sldMaster", EmptyElement),
     Wrap("p:sldMaster", Wrap("p:clrMap", EmptyElement)),
     Wrap("p:sldMaster", Wrap("p:cSld", EmptyElement) @@ Wrap("p:txStyles", EmptyElement)),
     Wrap("p:sldMaster", Wrap("p:cSld", Wrap("p:bg", Wrap("p:bgRef", SchemeFill("bg1"))))
                         @@ Wrap("p:txStyles", Wrap("p:titleStyle", Wrap("a:lvl1pPr", EmptyElement)))),
     MasterXml(EmptyElement, EmptyElement),
     MasterXml(EmptyElement, Wrap("p:sp", Arr(<<EmptyElement, Wrap("p:nvSpPr", EmptyElement)>>))
                             @@ Wrap("p:pic", Arr(<<EmptyElement, Wrap("p:spPr", EmptyElement)>>))),
     MasterXml(EmptyElement, Wrap("p:sp", Wrap("p:nvSpPr", Wrap("p:nvPr", Wrap("p:ph", EmptyElement))))),
     MasterXml(EmptyElement, Wrap("p:grpSp", Wrap("p:nvGrpSpPr", EmptyElement)))}

ParserLayouts == LayoutXmls \cup SparseLayouts
ParserMasters == MasterXmls \cup SparseMasters

\* the relationship files handed to the master and layout parsers
ParserRels ==
    {Null, Undefined, Wrap("Relationships", EmptyElement),
     Wrap("Relationships", Wrap("Relationship", Arr(<<EmptyElement, Wrap("@_Id", "rId3")>>)))}

\* the options of a call: left out, null, empty, or with a resolver
ParserOptions(R) ==
    {Null, Undefined, EmptyElement, [colorResolver |-> R],
     [colorResolver |-> R, masterDefaults |-> Null]}

InitParsers ==
    /\ resolver \in LayoutResolvers
    /\ op = "idle"
    /\ arg = <<>>
    /\ ret = <<>>
    /\ NoRun

ParseRelationships(relsXml) ==
    /\ op = "idle"
    /\ op' = "parseRelationships"
    /\ arg' = [document |-> relsXml]
    /\ ret' = [value |-> parseRelationships(relsXml)]
    /\ UNCHANGED <<resolver, outputDir, step>>

ParsePresentation(presentationXml) ==
    /\ op = "idle"
    /\ op' = "parsePresentation"
    /\ arg' = [document |-> presentationXml]
    /\ ret' = [value |-> parsePresentation(presentationXml)]
    /\ UNCHANGED <<resolver, outputDir, step>>

ParseMasterFile(masterXml, masterRels, options) ==
    /\ op = "idle"
    /\ op' = "parseSlideMaster"
    /\ arg' = [document |-> masterXml, rels |-> masterRels, options |-> options]
    /\ ret' = [value |-> MasterReturn(masterXml, masterRels, options)]
    /\ UNCHANGED <<resolver, outputDir, step>>

ParseLayoutFile(layoutXml, layoutRels, options) ==
    /\ op = "idle"
    /\ op' = "parseSlideLayout"
    /\ arg' = [document |-> layoutXml, rels |-> layoutRels, options |-> options]
    /\ ret' = [value |-> LayoutReturn(layoutXml, layoutRels, options)]
    /\ UNCHANGED <<resolver, outputDir, step>>

NextParsers ==
    \/ /\ op = "idle"
       /\ \E relsXml \in RelationshipDocs : ParseRelationships(relsXml)
    \/ /\ op = "idle"
       /\ \E presentationXml \in PresentationDocs : ParsePresentation(presentationXml)
    \/ /\ op = "idle"
       /\ \E masterXml \in ParserMasters, masterRels \in ParserRels, options \in ParserOptions(resolver) :
             ParseMasterFile(masterXml, masterRels, options)
    \/ /\ op = "idle"
       /\ \E layoutXml \in ParserLayouts, layoutRels \in ParserRels, options \in ParserOptions(resolver) :
             ParseLayoutFile(layoutXml, layoutRels, options)
    \/ Done

SpecParsers == InitParsers /\ [][NextParsers]_vars

----------------------------------------------------------------------------
(* Missing input never throws *)

ParserCalls == {"parseRelationships", "parseSlideMaster", "parseSlideLayout", "parsePresentation"}

RootTag ==
    [parseRelationships |-> "Relationships", parseSlideMaster |-> "p:sldMaster",
     parseSlideLayout |-> "p:sldLayout", parsePresentation |-> "p:presentation"]

\* what each parser returns for no document
EmptyResult ==
    [parseRelationships |-> <<>>,
     parseSlideMaster |->
        [clrMap |-> <<>>, background |-> Null, shapes |-> <<>>,
         textStyles |-> [title |-> Null, body |-> Null, other |-> Null],
         relationships |-> <<>>, placeholderDefaults |-> <<>>],
     parseSlideLayout |->
        [name |-> "", clrMapOverride |-> Null, background |-> Null, placeholders |-> <<>>,
         staticShapes |-> <<>>, warnings |-> <<>>, relationships |-> <<>>],
     parsePresentation |-> [width |-> QInt(10), height |-> Q(15, 2)]]

\* the document argument is null, left out or empty, or lacks its root element
DocumentMissing ==
    /\ op \in ParserCalls
    /\ Falsy(OptionalRead(arg.document, RootTag[op]))

\* C19: parseRelationships, parseSlideMaster, parseSlideLayout and
\* parsePresentation never throw, whatever is null or absent in their
\* document argument or inside it, and for a document that is null or
\* absent they return an empty map, the empty master record with null
\* background, the empty layout record with null background and empty
\* lists, and the dimensions 10 by 7.5.
C19_ParsersAcceptMissingInput ==
    op \in ParserCalls =>
        /\ ret.value # TypeError
        /\ DocumentMissing => ret.value = EmptyResult[op]

C19_Witness ==
    /\ op = "parseSlideLayout"
    /\ ~DocumentMissing
    /\ Falsy(OptionalRead(arg.document["p:sldLayout"], "p:cSld"))
    /\ Falsy(arg.rels)
    /\ ret.value.placeholders = <<>>
    /\ ret.value.background = Null

----------------------------------------------------------------------------
(* theme.js: parseTheme.  A call returns the theme, throws the Error the   *)
(* code raises with its message, or throws the TypeError of a property     *)
(* read on null or undefined.                                              *)

SCHEME_COLOR_NAMES ==
    {"dk1", "lt1", "dk2", "lt2", "accent1", "accent2", "accent3", "accent4",
     "accent5", "accent6", "hlink", "folHlink"}

\* throw new Error(message)
ThrownError(message) == [threw |-> "Error", message |-> message]

\* the slot gives a colour: a:srgbClr with a val, else a:sysClr
HasSlotColor(slot) ==
    \/ Truthy(slot, "a:srgbClr") /\ Has(slot["a:srgbClr"], "@_val")
    \/ ~Truthy(slot, "a:srgbClr") /\ Truthy(slot, "a:sysClr")

\* slot['a:srgbClr']['@_val'], or slot['a:sysClr']['@_lastClr'] || '000000'
SlotColor(slot) ==
    IF Truthy(slot, "a:srgbClr") THEN slot["a:srgbClr"]["@_val"]
    ELSE HexOr(slot["a:sysClr"], "@_lastClr", BLACK)

extractSchemeColors(clrScheme) ==
    IF Falsy(clrScheme) THEN <<>>
    ELSE [name \in {n \in SCHEME_COLOR_NAMES :
                       Truthy(clrScheme, "a:" \o n) /\ HasSlotColor(clrScheme["a:" \o n])} |->
             SlotColor(clrScheme["a:" \o name])]

\* the typeface of a:majorFont or a:minorFont, '' when it has no a:latin
LatinTypeface(fontScheme, tag) ==
    IF Truthy(fontScheme, tag) /\ Truthy(fontScheme[tag], "a:latin")
    THEN NameOr(fontScheme[tag]["a:latin"], "@_typeface", "")
    ELSE ""

extractFontScheme(fontScheme) ==
    IF Falsy(fontScheme) THEN [heading |-> "", body |-> ""]
    ELSE [heading |-> LatinTypeface(fontScheme, "a:majorFont"),
          body |-> LatinTypeface(fontScheme, "a:minorFont")]

extractFormatScheme(fmtScheme) ==
    IF Falsy(fmtScheme) THEN Null
    ELSE [fillStyleLst |-> StyleOrNull(fmtScheme, "a:fillStyleLst"),
          lnStyleLst |-> StyleOrNull(fmtScheme, "a:lnStyleLst"),
          effectStyleLst |-> StyleOrNull(fmtScheme, "a:effectStyleLst"),
          bgFillStyleLst |-> StyleOrNull(fmtScheme, "a:bgFillStyleLst")]

ThemeOf(elements) ==
    [colors |-> extractSchemeColors(OptionalRead(elements, "a:clrScheme")),
     fonts |-> extractFontScheme(OptionalRead(elements, "a:fontScheme")),
     formatScheme |-> extractFormatScheme(OptionalRead(elements, "a:fmtScheme"))]

\* themeXml['a:theme'] is a plain read: it throws for null and undefined
parseTheme(themeXml) ==
    IF themeXml = Null \/ themeXml = Undefined THEN TypeError
    ELSE IF Falsy(OptionalRead(themeXml, "a:theme"))
    THEN ThrownError("Invalid theme XML: missing a:theme root element")
    ELSE IF Falsy(OptionalRead(themeXml["a:theme"], "a:themeElements"))
    THEN ThrownError("Invalid theme XML: missing a:themeElements")
    ELSE ThemeOf(themeXml["a:theme"]["a:themeElements"])

----------------------------------------------------------------------------
(* theme documents *)

SrgbSlot(hex) == Wrap("a:srgbClr", ValEl(hex))

ClrSchemeElements ==
    {EmptyElement,
     Wrap("@_name", "Office"),
     Wrap("a:dk1", Wrap("a:sysClr", Wrap("@_val", "windowText") @@ Wrap("@_lastClr", BLACK)))
        @@ Wrap("a:lt1", Wrap("a:sysClr", Wrap("@_val", "window"))),
     Wrap("a:dk1", SrgbSlot(BLACK)) @@ Wrap("a:accent1", SrgbSlot(RedHex)) @@ Wrap("a:accent2", EmptyElement),
     Wrap("a:accent1", Wrap("a:srgbClr", Wrap("@_other", "1"))) @@ Wrap("a:hlink", SrgbSlot(RedHex))
        @@ Wrap("a:folHlink", Wrap("a:prstClr", ValEl("red"))),
     Wrap("a:custom", SrgbSlot(RedHex))}

FontSchemeElements ==
    {EmptyElement,
     Wrap("a:majorFont", Wrap("a:latin", Wrap("@_typeface", "Georgia")))
        @@ Wrap("a:minorFont", Wrap("a:latin", Wrap("@_typeface", "Arial"))),
     Wrap("a:majorFont", Wrap("a:latin", Wrap("@_typeface", ""))) @@ Wrap("a:minorFont", EmptyElement),
     Wrap("a:minorFont", Wrap("a:ea", Wrap("@_typeface", "Meiryo"))),
     Wrap("a:majorFont", Wrap("a:latin", Wrap("@_panose", "0")))}

FmtSchemeElements ==
    {EmptyElement,
     Wrap("@_name", "Office"),
     Wrap("a:fillStyleLst", Wrap("a:solidFill", SchemeFill("phClr"))) @@ Wrap("a:lnStyleLst", EmptyElement),
     Wrap("a:bgFillStyleLst", Wrap("a:noFill", EmptyElement))
        @@ Wrap("a:effectStyleLst", Wrap("a:effectStyle", EmptyElement))}

\* a:themeElements holding the given children, a child left out when empty
ThemeElements(clrScheme, fontScheme, fmtScheme) ==
    Wrap("a:extLst", EmptyElement)
    @@ (IF clrScheme = EmptyElement THEN <<>> ELSE Wrap("a:clrScheme", clrScheme))
    @@ (IF fontScheme = EmptyElement THEN <<>> ELSE Wrap("a:fontScheme", fontScheme))
    @@ (IF fmtScheme = EmptyElement THEN <<>> ELSE Wrap("a:fmtScheme", fmtScheme))

ThemeDocs ==
    MissingDocuments
    \cup {Wrap("?xml", EmptyElement), Wrap("a:theme", EmptyElement), Wrap("a:theme", Wrap("@_name", "Office")),
          Wrap("a:theme", Wrap("a:themeElements", EmptyElement)),
          Wrap("a:theme", Wrap("a:objectDefaults", EmptyElement) @@ Wrap("a:themeElements", EmptyElement))}
    \cup {Wrap("a:theme", Wrap("a:themeElements", ThemeElements(clrScheme, fontScheme, fmtScheme))) :
             clrScheme \in ClrSchemeElements, fontScheme \in FontSchemeElements,
             fmtScheme \in FmtSchemeElements}

InitTheme ==
    /\ resolver = Null
    /\ op = "idle"
    /\ arg = <<>>
    /\ ret = <<>>
    /\ NoRun

ParseTheme(themeXml) ==
    /\ op = "idle"
    /\ op' = "parseTheme"
    /\ arg' = [themeXml |-> themeXml]
    /\ ret' = parseTheme(themeXml)
    /\ UNCHANGED <<resolver, outputDir, step>>

NextTheme ==
    \/ /\ op = "idle"
       /\ \E themeXml \in ThemeDocs : ParseTheme(themeXml)
    \/ Done

SpecTheme == InitTheme /\ [][NextTheme]_vars

----------------------------------------------------------------------------
(* Missing theme root *)

\* the theme root or the theme-elements element is missing, the document
\* itself being null, left out or empty included
ThemeRootMissing ==
    /\ op = "parseTheme"
    /\ \/ Falsy(OptionalRead(arg.themeXml, "a:theme"))
       \/ Falsy(OptionalRead(arg.themeXml["a:theme"], "a:themeElements"))

\* the messages that say which element is missing
DescriptiveMessages ==
    {"Invalid theme XML: missing a:theme root element", "Invalid theme XML: missing a:themeElements"}

\* C20: whenever the theme root element or the theme-elements element is
\* missing from the input of parseTheme (the input being null or empty
\* included), the call throws an error that carries a descriptive message,
\* and no theme is returned.
C20_MissingRootThrowsDescriptiveError ==
    ThemeRootMissing =>
        /\ Has(ret, "threw")
        /\ Has(ret, "message")
        /\ ret.message \in DescriptiveMessages

----------------------------------------------------------------------------
(* resolveRelPath: a relationship target against the path of the file that *)
(* holds it.  A path is the sequence of its characters.                    *)

\* the longest relationship target tried
MaxPathLen == 4

\* s.split('/'), line being the segment read so far
RECURSIVE SplitPath(_, _)
SplitPath(s, seg) ==
    IF s = <<>> THEN <<seg>>
    ELSE IF Head(s) = "/" THEN <<seg>> \o SplitPath(Tail(s), <<>>)
    ELSE SplitPath(Tail(s), Append(seg, Head(s)))

\* segments.join('/')
RECURSIVE JoinPath(_)
JoinPath(segments) ==
    IF segments = <<>> THEN <<>>
    ELSE IF Len(segments) = 1 THEN segments[1]
    ELSE segments[1] \o <<"/">> \o JoinPath(Tail(segments))

\* basePath.lastIndexOf('/'), counted from 1, 0 when there is none
LastSlash(path) ==
    IF \E i \in 1..Len(path) : path[i] = "/"
    THEN CHOOSE i \in 1..Len(path) : path[i] = "/" /\ \A j \in (i + 1)..Len(path) : path[j] # "/"
    ELSE 0

\* lastSlash >= 0 ? basePath.slice(0, lastSlash) : ''
BaseDir(basePath) == SubSeq(basePath, 1, LastSlash(basePath) - 1)

\* baseDir ? baseDir.split('/') : []
BaseSegments(baseDir) == IF baseDir = <<>> THEN <<>> ELSE SplitPath(baseDir, <<>>)

\* one step of the loop: '..' pops, '.' and '' are skipped, the rest is pushed
StepSegment(segments, seg) ==
    IF seg = <<".", ".">> THEN SubSeq(segments, 1, Len(segments) - 1)
    ELSE IF seg # <<".">> /\ seg # <<>> THEN Append(segments, seg)
    ELSE segments

RECURSIVE WalkSegments(_, _)
WalkSegments(segments, relSegments) ==
    IF relSegments = <<>> THEN segments
    ELSE WalkSegments(StepSegment(segments, Head(relSegments)), Tail(relSegments))

resolveRelPath(basePath, relTarget) ==
    IF StartsWith(relTarget, <<"/">>) THEN Tail(relTarget)
    ELSE JoinPath(WalkSegments(BaseSegments(BaseDir(basePath)), SplitPath(relTarget, <<>>)))

\* the characters paths are made of
PathChars == {"a", ".", "/"}

RelTargets == UNION {[1..n -> PathChars] : n \in 0..MaxPathLen}

\* the paths of the files that hold relationships
BasePaths ==
    {<<"x">>,
     <<"p", "/", "x">>,
     <<"p", "/", "s", "/", "x">>,
     <<"p", "/", "s", "/", "_", "/", "x">>}

InitRelPath ==
    /\ resolver = Null
    /\ op = "idle"
    /\ arg = <<>>
    /\ ret = <<>>
    /\ NoRun

ResolveRelPath(basePath, relTarget) ==
    /\ op = "idle"
    /\ op' = "resolveRelPath"
    /\ arg' = [basePath |-> basePath, relTarget |-> relTarget]
    /\ ret' = [path |-> resolveRelPath(basePath, relTarget)]
    /\ UNCHANGED <<resolver, outputDir, step>>

NextRelPath ==
    \/ /\ op = "idle"
       /\ \E basePath \in BasePaths, relTarget \in RelTargets : ResolveRelPath(basePath, relTarget)
    \/ Done

SpecRelPath == InitRelPath /\ [][NextRelPath]_vars

----------------------------------------------------------------------------
(* Ordinary path resolution *)

\* the segments left after resolving every segment from the archive root
RECURSIVE Normalised(_, _)
Normalised(stack, segments) ==
    IF segments = <<>> THEN stack
    ELSE IF Head(segments) = <<".", ".">>
    THEN Normalised(SubSeq(stack, 1, Len(stack) - 1), Tail(segments))
    ELSE IF Head(segments) \in {<<>>, <<".">>} THEN Normalised(stack, Tail(segments))
    ELSE Normalised(Append(stack, Head(segments)), Tail(segments))

\* the target resolved against the directory of the base file, a leading
\* slash starting again from the archive root
OrdinaryResolution(basePath, relTarget) ==
    IF StartsWith(relTarget, <<"/">>) THEN JoinPath(Normalised(<<>>, SplitPath(relTarget, <<>>)))
    ELSE JoinPath(Normalised(<<>>, SplitPath(BaseDir(basePath), <<>>) \o SplitPath(relTarget, <<>>)))

IsCleanPath(path) ==
    path = <<>> \/ \A i \in 1..Len(SplitPath(path, <<>>)) :
                      SplitPath(path, <<>>)[i] \notin {<<>>, <<".">>, <<".", ".">>}

\* C21: for every base path and relationship target, resolveRelPath gives
\* the normalised archive path of ordinary path resolution of the target
\* against the base file's directory (a leading slash meaning the archive
\* root): no leading slash and no '.', '..' or empty segment.
C21_OrdinaryPathResolution ==
    op = "resolveRelPath" =>
        /\ ret.path = OrdinaryResolution(arg.basePath, arg.relTarget)
        /\ IsCleanPath(ret.path)

----------------------------------------------------------------------------
(* The colour math on its own: hexToRgb, rgbToHex and applyColorModifiers  *)
(* called on hex strings of either letter case                             *)

\* the two hex digits of one channel: the ends of the range, values whose
\* second digit needs padding, letters in upper, lower and mixed case
ChannelDigits ==
    {<<"0","0">>, <<"0","A">>, <<"3","3">>, <<"7","F">>, <<"8","0">>, <<"C","4">>, <<"F","F">>,
     <<"0","a">>, <<"c","4">>, <<"f","F">>}

HexStrings == {r \o g \o b : r \in ChannelDigits, g \in ChannelDigits, b \in ChannelDigits}

\* modifier sets of one luminance modifier, and none
LumModifiers == {<<>>} \cup {[lumMod |-> v] : v \in {0, 50000, 100000}}

InitColorMath ==
    /\ resolver = Null
    /\ op = "idle"
    /\ arg = <<>>
    /\ ret = <<>>
    /\ NoRun

\* rgbToHex(...hexToRgb(hex))
HexRoundTrip(hex) ==
    /\ op = "idle"
    /\ op' = "rgbToHex"
    /\ arg' = [hex |-> hex]
    /\ ret' = [rgb |-> hexToRgb(hex), hex |-> RgbTripleToHex(hexToRgb(hex))]
    /\ UNCHANGED <<resolver, outputDir, step>>

ApplyColorModifiers(hex, modifiers) ==
    /\ op = "idle"
    /\ op' = "applyColorModifiers"
    /\ arg' = [hex |-> hex, modifiers |-> modifiers]
    /\ ret' = [hex |-> applyColorModifiers(hex, modifiers)]
    /\ UNCHANGED <<resolver, outputDir, step>>

NextColorMath ==
    \/ /\ op = "idle"
       /\ \E hex \in HexStrings : HexRoundTrip(hex)
    \/ /\ op = "idle"
       /\ \E hex \in HexStrings, modifiers \in LumModifiers : ApplyColorModifiers(hex, modifiers)
    \/ Done

SpecColorMath == InitColorMath /\ [][NextColorMath]_vars

----------------------------------------------------------------------------
(* Round trips *)

IsLumModIdentityCall ==
    op = "applyColorModifiers" /\ arg.modifiers = [lumMod |-> 100000]

\* C22: for every 6-digit hex colour c, applyColorModifiers(c, {lumMod:
\* 100000}) returns exactly c.
C22_LumModIdentity ==
    IsLumModIdentityCall => ret.hex = arg.hex

\* C22 as it holds: the result is c with its letters in upper case, and the
\* RGB to HSL to RGB round trip changes no channel.
C22_LumModIdentityUpperCase ==
    IsLumModIdentityCall =>
        /\ ret.hex = ToUpperCase(arg.hex)
        /\ hexToRgb(ret.hex) = hexToRgb(arg.hex)

C22_Witness ==
    /\ IsLumModIdentityCall
    /\ arg.hex = <<"0","a","c","4","7","F">>
    /\ ret.hex = <<"0","A","C","4","7","F">>

\* C23: for all 6-digit hex colours c, rgbToHex of the three channels of
\* hexToRgb(c) returns c.
C23_HexRoundTrip ==
    op = "rgbToHex" => ret.hex = arg.hex

\* C23 as it holds: the round trip returns c with its letters in upper case.
C23_HexRoundTripUpperCase ==
    op = "rgbToHex" => ret.hex = ToUpperCase(arg.hex)

C23_Witness ==
    /\ op = "rgbToHex"
    /\ arg.hex = <<"f","F","0","a","3","3">>
    /\ ret.rgb = <<255, 10, 51>>
    /\ ret.hex = <<"F","F","0","A","3","3">>

----------------------------------------------------------------------------
(* The command line: run(input, opts) as a sequence of awaits, with the   *)
(* user editing the output directory while it is suspended                *)

Pptx == <<"p","p","t","x">>
Potx == <<"p","o","t","x">>
Deck == <<"d","e","c","k">>

\* inputPath.split('.').pop().toLowerCase(); the path is held as its
\* dot-separated pieces
ExtensionOf(inputPath) == toLowerCase(inputPath[Len(inputPath)])

\* what extract(inputPath) resolves to for a readable template
Extracted(template) ==
    [templateName |-> template.templateName,
     layouts |-> template.layouts,
     mediaFiles |-> template.mediaFiles]

StyleGuideTemplate == <<"# Style Guide", "## Dos", "## Don'ts", "## Typography preferences",
                        "## Color usage", "## Layout preferences">>

\* the generated text of one output file
Generated(generator, templateName) == <<generator, templateName>>

Put(dir, name, content) == [n \in DOMAIN dir \cup {name} |-> IF n = name THEN content ELSE dir[n]]

Remove(dir, name) == [n \in DOMAIN dir \ {name} |-> dir[n]]

\* opts[k] !== false
NotFalse(opts, k) == ~Has(opts, k) \/ opts[k]

\* opts[k] of a flag
Flag(opts, k) == Has(opts, k) /\ opts[k]

\* fs.access(path) resolves
Accessible(dir, name) == name \in DOMAIN dir

\* the files named in the summary
OutputFiles(opts, result) ==
    <<"masters.js", "theme.json", "SLIDE_MASTERS.md">>
    \o (IF NotFalse(opts, "report") THEN <<"report.md">> ELSE <<>>)
    \o (IF NotFalse(opts, "preview") THEN <<"preview.pptx">> ELSE <<>>)
    \o (IF Len(result.mediaFiles) > 0 THEN <<"media/">> ELSE <<>>)

\* the step after the preview: the summary is printed and run returns
AfterPreview == "exit"

AfterMedia(opts) ==
    IF NotFalse(opts, "preview") THEN "preview.pptx" ELSE AfterPreview

AfterReport(opts, result) ==
    IF Len(result.mediaFiles) > 0 THEN "media" ELSE AfterMedia(opts)

AfterStyleGuide(opts, result) ==
    IF NotFalse(opts, "report") THEN "report.md" ELSE AfterReport(opts, result)

\* run moves on to the await named next, or returns after the summary
Continue(next) ==
    /\ step' = next
    /\ ret' = IF next = "exit"
              THEN [outputFiles |-> OutputFiles(arg.opts, Extracted(arg.input.template))]
              ELSE ret
    /\ UNCHANGED <<resolver, op, arg>>

\* run rejects with an Error
Throw(message) ==
    /\ step' = "exit"
    /\ ret' = ThrownError(message)
    /\ UNCHANGED <<resolver, op, arg, outputDir>>

\* run(input, opts) up to its first await: the extension check
Run(input, opts) ==
    /\ op = "idle"
    /\ step = "exit"
    /\ op' = "run"
    /\ arg' = [input |-> input, opts |-> opts]
    /\ IF ExtensionOf(input.inputPath) \notin {Pptx, Potx}
       THEN /\ ret' = ThrownError(<<"Invalid file type: .", ExtensionOf(input.inputPath),
                                    ". Expected .pptx or .potx">>)
            /\ step' = "exit"
       ELSE /\ ret' = <<>>
            /\ step' = "access"
    /\ UNCHANGED <<resolver, outputDir>>

\* await access(inputPath)
AccessInput ==
    /\ step = "access"
    /\ IF arg.input.entry = "missing"
       THEN Throw(<<"File not found: ", arg.input.inputPath>>)
       ELSE Continue("stat") /\ UNCHANGED outputDir

\* await stat(inputPath)
StatInput ==
    /\ step = "stat"
    /\ IF arg.input.entry # "file"
       THEN Throw(<<"Not a file: ", arg.input.inputPath>>)
       ELSE Continue("extract") /\ UNCHANGED outputDir

\* await extract(inputPath, ...), then the --list mode
AwaitExtract ==
    /\ step = "extract"
    /\ IF arg.input.template = Null
       THEN Throw(<<"Invalid archive">>)
       ELSE IF Flag(arg.opts, "list")
       THEN /\ step' = "exit"
            /\ ret' = [listed |-> arg.input.template.layouts]
            /\ UNCHANGED <<resolver, op, arg, outputDir>>
       ELSE Continue("mkdir") /\ UNCHANGED outputDir

\* await mkdir(outputDir, { recursive: true }): an existing directory keeps
\* its files, a new one holds none
Mkdir ==
    /\ step = "mkdir"
    /\ Continue("masters.js")
    /\ UNCHANGED outputDir

\* await writeFile(path, data): the file holds data afterwards, whatever
\* it held before
WriteFile(name, generator, next) ==
    /\ step = name
    /\ outputDir' = Put(outputDir, name, Generated(generator, arg.input.template.templateName))
    /\ Continue(next)

WriteMasters == WriteFile("masters.js", "generateMastersCode", "access package.json")

\* await access(pkgJsonPath)
AccessPackageJson ==
    /\ step = "access package.json"
    /\ Continue(IF Accessible(outputDir, "package.json") THEN "theme.json" ELSE "package.json")
    /\ UNCHANGED outputDir

WritePackageJson == WriteFile("package.json", "pkgJson", "theme.json")

WriteThemeJson == WriteFile("theme.json", "generateThemeJson", "SLIDE_MASTERS.md")

WriteSlideMasters == WriteFile("SLIDE_MASTERS.md", "generateAgentInstructions", "access STYLE_GUIDE.md")

\* await access(styleGuidePath): the catch branch is taken when it rejects
AccessStyleGuide ==
    /\ step = "access STYLE_GUIDE.md"
    /\ Continue(IF Accessible(outputDir, "STYLE_GUIDE.md")
                THEN AfterStyleGuide(arg.opts, Extracted(arg.input.template))
                ELSE "STYLE_GUIDE.md")
    /\ UNCHANGED outputDir

\* await writeFile(styleGuidePath, styleGuide, 'utf-8') in the catch branch
WriteStyleGuide ==
    /\ step = "STYLE_GUIDE.md"
    /\ outputDir' = Put(outputDir, "STYLE_GUIDE.md", StyleGuideTemplate)
    /\ Continue(AfterStyleGuide(arg.opts, Extracted(arg.input.template)))

WriteReport ==
    WriteFile("report.md", "generateReport", AfterReport(arg.opts, Extracted(arg.input.template)))

\* the media directory and its files
CopyMedia ==
    /\ step = "media"
    /\ outputDir' = Put(outputDir, "media/", arg.input.template.mediaFiles)
    /\ Continue(AfterMedia(arg.opts))

WritePreview == WriteFile("preview.pptx", "generatePreview", AfterPreview)

\* the user saves STYLE_GUIDE.md with their own text
UserSavesStyleGuide(text) ==
    /\ outputDir' = Put(outputDir, "STYLE_GUIDE.md", text)
    /\ UNCHANGED <<resolver, op, arg, ret, step>>

\* the user deletes STYLE_GUIDE.md
UserDeletesStyleGuide ==
    /\ Accessible(outputDir, "STYLE_GUIDE.md")
    /\ outputDir' = Remove(outputDir, "STYLE_GUIDE.md")
    /\ UNCHANGED <<resolver, op, arg, ret, step>>

\* templates on disk
CliTemplates ==
    {[templateName |-> "Acme", layouts |-> <<"Title Slide", "Content">>,
      mediaFiles |-> <<"image1.png">>],
     [templateName |-> "Plain", layouts |-> <<"Blank">>, mediaFiles |-> <<>>]}

\* input paths and what they name: a template, a file that is no archive,
\* a directory, nothing
CliInputs ==
    {[inputPath |-> <<Deck, ext>>, entry |-> "file", template |-> t] :
        ext \in {Pptx, <<"P","O","T","X">>}, t \in CliTemplates}
    \cup {[inputPath |-> <<Deck, <<"t","x","t">>>>, entry |-> "file", template |-> Null],
          [inputPath |-> <<Deck>>, entry |-> "file", template |-> Null],
          [inputPath |-> <<<<"g","o","n","e">>, Pptx>>, entry |-> "missing", template |-> Null],
          [inputPath |-> <<<<"d","i","r">>, Potx>>, entry |-> "directory", template |-> Null],
          [inputPath |-> <<<<"b","a","d">>, Pptx>>, entry |-> "file", template |-> Null]}

CliOptions ==
    {[output |-> "slide-masters"],
     [output |-> "slide-masters", list |-> TRUE],
     [output |-> "slide-masters", report |-> FALSE],
     [output |-> "slide-masters", preview |-> FALSE],
     [output |-> "slide-masters", report |-> FALSE, preview |-> FALSE]}

UserTexts == {<<"# Style Guide", "Use the dark title slide">>, <<"house style">>}

InitCli ==
    /\ resolver = Null
    /\ op = "idle"
    /\ arg = <<>>
    /\ ret = <<>>
    /\ outputDir \in {<<>>} \cup {Put(<<>>, "STYLE_GUIDE.md", text) : text \in UserTexts}
    /\ step = "exit"

NextCli ==
    \/ \E input \in CliInputs, opts \in CliOptions : Run(input, opts)
    \/ AccessInput
    \/ StatInput
    \/ AwaitExtract
    \/ Mkdir
    \/ WriteMasters
    \/ AccessPackageJson
    \/ WritePackageJson
    \/ WriteThemeJson
    \/ WriteSlideMasters
    \/ AccessStyleGuide
    \/ WriteStyleGuide
    \/ WriteReport
    \/ CopyMedia
    \/ WritePreview
    \/ \E text \in UserTexts : UserSavesStyleGuide(text)
    \/ UserDeletesStyleGuide
    \/ Done

SpecCli == InitCli /\ [][NextCli]_vars

----------------------------------------------------------------------------
(* STYLE_GUIDE.md across runs *)

\* a step of run, as opposed to a step of the user
RunStep == step' # step

StyleGuideExists == Accessible(outputDir, "STYLE_GUIDE.md")

\* C24: across any sequence of extractions into the same output directory,
\* with the user creating or editing the file between or during runs, no
\* step of a run changes a STYLE_GUIDE.md that exists when the step is
\* taken: its content after the step equals its content before.
C24_StyleGuideNeverOverwritten ==
    [][(RunStep /\ StyleGuideExists) =>
          /\ Accessible(outputDir', "STYLE_GUIDE.md")
          /\ outputDir'["STYLE_GUIDE.md"] = outputDir["STYLE_GUIDE.md"]]_vars

----------------------------------------------------------------------------
(* placeholders.js: mapPlaceholder *)

TYPE_MAP ==
    [title |-> "title", ctrTitle |-> "title", subTitle |-> "body", body |-> "body",
     obj |-> "body", pic |-> "pic", chart |-> "chart", tbl |-> "tbl", media |-> "media",
     clipArt |-> "pic", dgm |-> "chart"]

\* the types mapSlideNumberAndFooters handles
SKIP_TYPES == {"sldNum", "ftr", "dt", "hdr"}

\* TYPE_MAP[type] || 'body'
PlaceholderType(ph) ==
    IF Has(TYPE_MAP, NameOr(ph, "type", "")) THEN TYPE_MAP[ph.type] ELSE "body"

UnknownTypeWarnings(ph) ==
    IF NameOr(ph, "type", "") # "" /\ ~Has(TYPE_MAP, ph.type)
    THEN <<<<"Unknown placeholder type: ", ph.type>>>>
    ELSE <<>>

\* the text options copied onto the placeholder's options
PlaceholderTextOptions(textOpts) ==
    OptName(textOpts, "fontFace") @@ OptValue(textOpts, "fontSize") @@ OptColor(textOpts, "color")
    @@ OptFlag(textOpts, "bold") @@ OptFlag(textOpts, "italic")
    @@ OptName(textOpts, "align") @@ OptName(textOpts, "valign") @@ OptValue(textOpts, "margin")
    @@ OptValue(textOpts, "lineSpacing") @@ OptValue(textOpts, "lineSpacingMultiple")
    @@ OptValue(textOpts, "paraSpaceBefore") @@ OptValue(textOpts, "paraSpaceAfter")

\* tp?.paragraphs?.[0]?._explicitAlign || tp?.lstStyleProps?.[1]?.align
\* || tp?.lstStyleProps?.[0]?.align
HasExplicitAlign(tp) ==
    /\ tp # Null
    /\ \/ /\ Has(tp, "paragraphs")
          /\ tp.paragraphs # <<>>
          /\ NameOr(tp.paragraphs[1], "_explicitAlign", "") # ""
       \/ NameOr(Get(Get(tp, "lstStyleProps"), "1"), "align", "") # ""
       \/ NameOr(Get(Get(tp, "lstStyleProps"), "0"), "align", "") # ""

\* a centred title is centred unless the alignment is explicit
CenterTitleOptions(ph) ==
    IF NameOr(ph, "type", "") = "ctrTitle" /\ ~HasExplicitAlign(FieldOrNull(ph, "textProps"))
    THEN [align |-> "center"]
    ELSE <<>>

\* resolveFill of shapeProps.fill, nothing resolved when there is none
PlaceholderFill(ph, colorResolver) ==
    resolveFill(FieldOrNull(Get(ph, "shapeProps"), "fill"), colorResolver)

PlaceholderLine(ph, colorResolver) ==
    resolveLine(FieldOrNull(Get(ph, "shapeProps"), "line"), colorResolver)

PlaceholderOptions(ph, colorResolver) ==
    CenterTitleOptions(ph)
    @@ PlaceholderTextOptions(TextOptionsOf(ph))
    @@ [name |-> NameOr(ph, "name", ""), type |-> PlaceholderType(ph)]
    @@ PositionOrZero(ph)
    @@ KeptFill(PlaceholderFill(ph, colorResolver).result)
    @@ KeptLine(PlaceholderLine(ph, colorResolver))
    @@ RotateOf(ph)

mapPlaceholder(parsedPlaceholder, colorResolver) ==
    IF parsedPlaceholder = Null THEN Null
    ELSE IF NameOr(parsedPlaceholder, "type", "") \in SKIP_TYPES THEN Null
    ELSE [placeholder |-> [options |-> PlaceholderOptions(parsedPlaceholder, colorResolver)],
          warnings |-> UnknownTypeWarnings(parsedPlaceholder)
                       \o PlaceholderFill(parsedPlaceholder, colorResolver).warnings]

----------------------------------------------------------------------------
(* index.js: deduplicateObjects and the clean-up of a layout's objects *)

\* n != null ? Math.round(n * 100) / 100 : '', the empty string held as <<>>
round2(o, k) == IF Has(o, k) THEN Q(QRound(QMul(o[k], QInt(100))), 100) ELSE <<>>

Rounded(o) == <<round2(o, "x"), round2(o, "y"), round2(o, "w"), round2(o, "h")>>

\* the key the object is compared by, <<>> for null; the pieces the template
\* literal joins with ':' are kept apart
DedupKey(obj) ==
    IF Has(obj, "text")
    THEN <<"text", Get(obj.text, "text")>> \o Rounded(Get(obj.text, "options"))
    ELSE IF Has(obj, "image")
    THEN <<"image", Get(obj.image, "path")>> \o Rounded(obj.image)
    ELSE IF Has(obj, "rect")
    THEN <<"rect">> \o Rounded(obj.rect)
    ELSE <<>>

\* the loop of deduplicateObjects from a set of keys seen so far
RECURSIVE DedupFrom(_, _)
DedupFrom(objects, seen) ==
    IF objects = <<>> THEN <<>>
    ELSE IF Has(Head(objects), "placeholder")
    THEN <<Head(objects)>> \o DedupFrom(Tail(objects), seen)
    ELSE IF DedupKey(Head(objects)) # <<>> /\ DedupKey(Head(objects)) \in seen
    THEN DedupFrom(Tail(objects), seen)
    ELSE <<Head(objects)>>
         \o DedupFrom(Tail(objects),
                      IF DedupKey(Head(objects)) # <<>> THEN seen \cup {DedupKey(Head(objects))}
                      ELSE seen)

deduplicateObjects(objects) == DedupFrom(objects, {})

\* (r * 0.299 + g * 0.587 + b * 0.114) < 128 on a 6-digit colour
isDarkBackground(background) ==
    /\ background # Null
    /\ HexOr(background, "color", <<>>) # <<>>
    /\ Len(background.color) = 6
    /\ 299 * hexToRgb(background.color)[1] + 587 * hexToRgb(background.color)[2]
       + 114 * hexToRgb(background.color)[3] < 128000

FallbackColor(background) == IF isDarkBackground(background) THEN Hex("F","F","F","F","F","F") ELSE BLACK

\* (dimensions?.height || 7.5) * 0.9
FooterThreshold(dimensions) ==
    QMul(IF dimensions # Null /\ Has(dimensions, "height") /\ dimensions.height # QInt(0)
         THEN dimensions.height ELSE Q(15, 2), Q(9, 10))

InFooterZone(obj, dimensions) ==
    /\ Has(obj, "text")
    /\ Has(obj.text, "options")
    /\ ~QLt(IF Has(obj.text.options, "y") THEN obj.text.options.y ELSE QInt(0),
            FooterThreshold(dimensions))

\* paragraph spacing deleted, the colour set when there is none
FooterZoneOptions(opts, background) ==
    (IF HexOr(opts, "color", <<>>) = <<>> THEN [color |-> FallbackColor(background)] ELSE <<>>)
    @@ [k \in DOMAIN opts \ {"paraSpaceBefore", "paraSpaceAfter"} |-> opts[k]]

cleanupFooterZone(objects, dimensions, background) ==
    [i \in 1..Len(objects) |->
        IF InFooterZone(objects[i], dimensions)
        THEN [objects[i] EXCEPT !.text.options = FooterZoneOptions(@, background)]
        ELSE objects[i]]

\* the colour of one of the master's text styles, <<>> when it gives none
StyleColor(colorResolver, style) ==
    IF style = Null \/ style = EmptyElement THEN <<>>
    ELSE IF ~Truthy(Get(Get(style, "a:lvl1pPr"), "a:defRPr"), "a:solidFill") THEN <<>>
    ELSE IF resolve(colorResolver, style["a:lvl1pPr"]["a:defRPr"]["a:solidFill"]) = Null THEN <<>>
    ELSE HexOr(resolve(colorResolver, style["a:lvl1pPr"]["a:defRPr"]["a:solidFill"]), "color", <<>>)

\* title, then body, then other; <<>> for null
resolveDefaultTextColor(colorResolver, masterForLayout) ==
    IF masterForLayout = Null \/ FieldOrNull(masterForLayout, "textStyles") = Null THEN <<>>
    ELSE IF StyleColor(colorResolver, FieldOrNull(masterForLayout.textStyles, "title")) # <<>>
    THEN StyleColor(colorResolver, FieldOrNull(masterForLayout.textStyles, "title"))
    ELSE IF StyleColor(colorResolver, FieldOrNull(masterForLayout.textStyles, "body")) # <<>>
    THEN StyleColor(colorResolver, FieldOrNull(masterForLayout.textStyles, "body"))
    ELSE StyleColor(colorResolver, FieldOrNull(masterForLayout.textStyles, "other"))

applyPlaceholderColorDefaults(objects, defaultColor) ==
    IF defaultColor = <<>> THEN objects
    ELSE [i \in 1..Len(objects) |->
            IF Has(objects[i], "placeholder") /\ Has(objects[i].placeholder, "options")
               /\ HexOr(objects[i].placeholder.options, "color", <<>>) = <<>>
            THEN [objects[i] EXCEPT !.placeholder.options = [color |-> defaultColor] @@ @]
            ELSE objects[i]]

----------------------------------------------------------------------------
(* index.js: extract, the mapping of one parsed layout to its master data *)

\* the placeholder objects of the loop over layout.placeholders
RECURSIVE PlaceholderObjects(_, _)
PlaceholderObjects(placeholders, colorResolver) ==
    IF placeholders = <<>> THEN <<>>
    ELSE (IF mapPlaceholder(Head(placeholders), colorResolver) = Null THEN <<>>
          ELSE <<[placeholder |-> mapPlaceholder(Head(placeholders), colorResolver).placeholder]>>)
         \o PlaceholderObjects(Tail(placeholders), colorResolver)

\* the objects of the loop over static shapes: a slide-number shape is
\* skipped, a shape mapShape gives no object for adds none
RECURSIVE StaticObjects(_, _, _)
StaticObjects(shapes, colorResolver, relationships) ==
    IF shapes = <<>> THEN <<>>
    ELSE (IF extractSlideNumberFromShape(Head(shapes)) # Null THEN <<>>
          ELSE IF mapShape(Head(shapes), colorResolver, relationships).object = Null THEN <<>>
          ELSE <<mapShape(Head(shapes), colorResolver, relationships).object>>)
         \o StaticObjects(Tail(shapes), colorResolver, relationships)

\* if (!slideNumber) slideNumber = slideNumFromShape, over the shapes in order
RECURSIVE SlideNumberAfter(_, _)
SlideNumberAfter(shapes, slideNumber) ==
    IF shapes = <<>> THEN slideNumber
    ELSE SlideNumberAfter(Tail(shapes),
                          IF slideNumber = Null /\ extractSlideNumberFromShape(Head(shapes)) # Null
                          THEN extractSlideNumberFromShape(Head(shapes))
                          ELSE slideNumber)

\* the master's shapes whatever the layout says
InheritsMasterShapes_FlagIgnored(layout, masterForLayout) ==
    /\ masterForLayout # Null
    /\ Has(masterForLayout, "staticShapes")

\* layout.showMasterSp !== false && masterForLayout?.staticShapes
InheritsMasterShapes(layout, masterForLayout) ==
    /\ ~(Has(layout, "showMasterSp") /\ layout.showMasterSp = FALSE)
    /\ masterForLayout # Null
    /\ Has(masterForLayout, "staticShapes")

InheritedShapes(layout, masterForLayout) ==
    IF InheritsMasterShapes(layout, masterForLayout) THEN masterForLayout.staticShapes ELSE <<>>

\* !layout.background && masterForLayout?.background
UsingMasterBg(layout, masterForLayout) ==
    /\ FieldOrNull(layout, "background") = Null
    /\ masterForLayout # Null
    /\ FieldOrNull(masterForLayout, "background") # Null

LayoutBackground(layout, masterForLayout, colorResolver) ==
    mapBackground(IF FieldOrNull(layout, "background") # Null THEN layout.background
                  ELSE IF masterForLayout # Null THEN FieldOrNull(masterForLayout, "background")
                  ELSE Null,
                  colorResolver,
                  IF UsingMasterBg(layout, masterForLayout)
                  THEN FieldOrNull(masterForLayout, "relationships")
                  ELSE FieldOrNull(layout, "relationships")).background

\* [...shapeObjects, ...footerObjects, ...placeholderObjects, ...masterStaticShapes]
AllObjects(layout, masterForLayout, colorResolver) ==
    StaticObjects(layout.staticShapes, colorResolver, FieldOrNull(layout, "relationships"))
    \o mapSlideNumberAndFooters(layout.placeholders).footerObjects
    \o PlaceholderObjects(layout.placeholders, colorResolver)
    \o StaticObjects(InheritedShapes(layout, masterForLayout), colorResolver,
                     IF masterForLayout = Null THEN Null
                     ELSE FieldOrNull(masterForLayout, "relationships"))

\* the placeholder's number, then the layout's shapes, then the master's
ChosenSlideNumber(layout, masterForLayout) ==
    SlideNumberAfter(InheritedShapes(layout, masterForLayout),
                     SlideNumberAfter(layout.staticShapes,
                                      mapSlideNumberAndFooters(layout.placeholders).slideNumber))

\* slideNumber.color set from the background when the number has none
WithSlideNumberColor(slideNumber, background) ==
    IF slideNumber # Null /\ HexOr(slideNumber, "color", <<>>) = <<>>
    THEN [color |-> FallbackColor(background)] @@ slideNumber
    ELSE slideNumber

LayoutObjects(layout, masterForLayout, colorResolver, dimensions) ==
    applyPlaceholderColorDefaults(
        cleanupFooterZone(deduplicateObjects(AllObjects(layout, masterForLayout, colorResolver)),
                          dimensions,
                          LayoutBackground(layout, masterForLayout, colorResolver)),
        resolveDefaultTextColor(colorResolver, masterForLayout))

\* one entry of masterData, without the title derived from the name
MasterDataWith(layout, masterForLayout, colorResolver, dimensions) ==
    [name |-> layout.name,
     background |-> LayoutBackground(layout, masterForLayout, colorResolver),
     slideNumber |-> WithSlideNumberColor(ChosenSlideNumber(layout, masterForLayout),
                                          LayoutBackground(layout, masterForLayout, colorResolver)),
     objects |-> LayoutObjects(layout, masterForLayout, colorResolver, dimensions)]

\* one pass of the loop over filteredLayouts
MasterDataOf(themeColors, masters, dimensions, layout) ==
    MasterDataWith(layout,
                   MasterForLayout(masters, layout["_masterFile"]),
                   LayoutColorResolver(themeColors, masters,
                                       MasterForLayout(masters, layout["_masterFile"]),
                                       FieldOrNull(layout, "clrMapOverride")),
                   dimensions)

----------------------------------------------------------------------------
(* parsed layouts and masters the mapping stage of extract is run on *)

MaxStaticShapes == 2
MaxObjects == 3

FooterPosition == Inches(QInt(1), QInt(7), QInt(3), Q(1, 2))
BodyPosition == Inches(QInt(1), QInt(2), QInt(8), QInt(4))

RedFill == [type |-> "solidFill", element |-> Wrap("a:srgbClr", ValEl(RedHex))]

\* a text box holding nothing but a slide-number field
SlideNumberBox(pos, fontSize) ==
    [type |-> "shape", name |-> "Slide Number", position |-> pos, fill |-> Null, line |-> Null,
     textProps |-> [paragraphs |-> <<[runs |-> <<SlideNumField([fontSize |-> fontSize])>>]>>,
                    plainText |-> <<"#">>]]

FooterBox ==
    [type |-> "shape", name |-> "Footer", position |-> FooterPosition, fill |-> Null, line |-> Null,
     textProps |-> FooterTextProps(<<"H","i">>)]

Rectangle(fill, line) ==
    [type |-> "shape", name |-> "Bar", geometry |-> "rect", position |-> BodyPosition,
     fill |-> fill, line |-> line, textProps |-> Null]

Logo ==
    [type |-> "picture", name |-> "Logo", imageRef |-> "rId2", position |-> FooterPosition,
     fill |-> Null, line |-> Null, textProps |-> Null]

\* the static shapes of a layout
LayoutStaticShapes ==
    {SlideNumberBox(TinyPosition, QInt(10)), FooterBox}

LayoutStaticLists == UNION {[1..n -> LayoutStaticShapes] : n \in 0..MaxStaticShapes}

\* the static shapes of a master: a slide number; a rectangle, the footer
\* text and a slide number without a size; a second slide number and the logo
MasterStaticLists ==
    {<<SlideNumberBox(FooterPosition, QInt(12))>>,
     <<Rectangle(Null, Wrap("@_w", 12700)), FooterBox,
       SlideNumberBox(Inches(QInt(0), QInt(0), QInt(0), QInt(0)), QInt(10))>>,
     <<SlideNumberBox(TinyPosition, QInt(10)), Logo>>}

ImageRelationships == Wrap("rId2", [type |-> "image", target |-> <<"..", "media", "image1.png">>])

TitleStyles ==
    [title |-> Wrap("a:lvl1pPr", Wrap("a:defRPr", Wrap("a:solidFill",
                       Wrap("a:schemeClr", ValEl("tx1"))))),
     body |-> Null, other |-> Null]

\* masters as the two passes of extract leave them; the first is every
\* layout's master
ParsedMasters ==
    {<<>>}
    \cup {<<[clrMap |-> DEFAULT_CLR_MAP, background |-> Null, staticShapes |-> shapes,
             relationships |-> ImageRelationships, textStyles |-> TitleStyles,
             placeholderDefaults |-> <<>>]>> : shapes \in MasterStaticLists}

\* placeholders of a layout: slide numbers with and without a size, a
\* footer, a copyright line in a placeholder without a type, a title
LayoutPlaceholders ==
    {[type |-> "sldNum", name |-> "Slide Number 5", position |-> TinyPosition,
      textProps |-> FooterTextProps(<<"#">>)],
     [type |-> "sldNum", name |-> "Slide Number 6",
      position |-> Inches(QInt(0), QInt(0), QInt(0), QInt(0)), textProps |-> Null],
     [type |-> "ftr", name |-> "Footer 4", position |-> FooterPosition,
      textProps |-> FooterTextProps(<<"H","i">>)],
     [name |-> "Text 7", idx |-> "13", position |-> FooterPosition,
      textProps |-> FooterTextProps(<<"C","o","p","y","r","i","g","h","t"," ","A","B">>)],
     [type |-> "ctrTitle", name |-> "Title 1", position |-> BodyPosition,
      textProps |-> FooterTextProps(<<>>),
      shapeProps |-> [geometry |-> "rect", fill |-> RedFill, line |-> Null]]}

LayoutPlaceholderLists == UNION {[1..n -> LayoutPlaceholders] : n \in 0..MaxPlaceholders}

DarkBackground == Wrap("a:solidFill", Wrap("a:srgbClr", ValEl(BLACK)))

\* the name, flag and background of a layout: the flag is
\* layout['@_showMasterSp'] !== '0' of the attribute left out and of "0"
LayoutHeads ==
    {[name |-> "Title Slide", showMasterSp |-> NameOr(<<>>, "@_showMasterSp", "") # "0",
      background |-> Null],
     [name |-> "Content", showMasterSp |-> NameOr(Wrap("@_showMasterSp", "0"), "@_showMasterSp", "") # "0",
      background |-> DarkBackground]}

\* layouts as parseSlideLayout and extract leave them
MappedLayouts(masters) ==
    {head @@ [clrMapOverride |-> Null, placeholders |-> placeholders, staticShapes |-> shapes,
              relationships |-> ImageRelationships, warnings |-> <<>>]
     @@ ("_masterFile" :> Len(masters)) :
        head \in LayoutHeads, placeholders \in LayoutPlaceholderLists, shapes \in LayoutStaticLists}

\* object lists deduplicateObjects is run on: the objects of the shapes and
\* placeholders above, each list holding a repeat
DedupObjects ==
    {mapShape(shape, createColorResolver(ThemeFull, DEFAULT_CLR_MAP), ImageRelationships).object :
        shape \in LayoutStaticShapes
                   \cup {Logo, Rectangle(RedFill, Null), Rectangle(Null, Wrap("@_w", 12700))}}
    \cup {[placeholder |-> mapPlaceholder(ph, createColorResolver(ThemeFull, DEFAULT_CLR_MAP)).placeholder] :
             ph \in {p \in LayoutPlaceholders : ~Has(p, "type") \/ p.type = "ctrTitle"}}
    \cup {[line |-> Inches(QInt(0), QInt(1), QInt(10), QInt(0))]}

DedupLists == UNION {[1..n -> DedupObjects] : n \in 0..MaxObjects}

InitMasterData ==
    /\ resolver = Null
    /\ op = "idle"
    /\ arg = <<>>
    /\ ret = <<>>
    /\ NoRun

\* one pass of the loop of extract over the filtered layouts
MapLayout(masters, layout) ==
    /\ op = "idle"
    /\ op' = "masterData"
    /\ arg' = [masters |-> masters, layout |-> layout]
    /\ ret' = MasterDataOf(ThemeFull, masters, DefaultDimensions, layout)
    /\ UNCHANGED <<resolver, outputDir, step>>

DeduplicateObjects(objects) ==
    /\ op = "idle"
    /\ op' = "deduplicateObjects"
    /\ arg' = [objects |-> objects]
    /\ ret' = [objects |-> deduplicateObjects(objects)]
    /\ UNCHANGED <<resolver, outputDir, step>>

NextMasterData ==
    \/ \E masters \in ParsedMasters : \E layout \in MappedLayouts(masters) : MapLayout(masters, layout)
    \/ \E objects \in DedupLists : DeduplicateObjects(objects)
    \/ Done

SpecMasterData == InitMasterData /\ [][NextMasterData]_vars

----------------------------------------------------------------------------
(* Master shapes in a layout's result *)

\* the master and the resolver of the layout being mapped
MappedMaster == MasterForLayout(arg.masters, arg.layout["_masterFile"])

MappedResolver ==
    LayoutColorResolver(ThemeFull, arg.masters, MappedMaster, FieldOrNull(arg.layout, "clrMapOverride"))

\* the same masters without their static shapes
WithoutStaticShapes(masters) ==
    [i \in 1..Len(masters) |-> [masters[i] EXCEPT !.staticShapes = <<>>]]

\* the objects the master's static shapes map to
MasterObjects ==
    IF MappedMaster = Null THEN <<>>
    ELSE StaticObjects(MappedMaster.staticShapes, MappedResolver, MappedMaster.relationships)

\* the object is in the list, or one deduplicateObjects takes for the same
Represented(object, objects) ==
    \E i \in 1..Len(objects) :
        IF DedupKey(object) # <<>> THEN DedupKey(objects[i]) = DedupKey(object)
        ELSE objects[i] = object

MasterSlideNumbers ==
    IF MappedMaster = Null THEN {}
    ELSE {extractSlideNumberFromShape(MappedMaster.staticShapes[i]) :
             i \in 1..Len(MappedMaster.staticShapes)} \ {Null}

\* the result the layout has under a master that has no static shapes
ResultWithoutMasterShapes ==
    MasterDataOf(ThemeFull, WithoutStaticShapes(arg.masters), DefaultDimensions, arg.layout)

\* C25: a layout's result holds what its master's static shapes give (their
\* objects, and a slide number when one of them is a slide number) if and
\* only if the layout's show-master-shapes flag is not explicitly 0: with
\* the flag at 0 the result is the one of a master without static shapes,
\* no object and no slide number comes from them.
C25_MasterShapesIffFlagNotZero ==
    op = "masterData" =>
        /\ ~arg.layout.showMasterSp => ret = ResultWithoutMasterShapes
        /\ arg.layout.showMasterSp =>
              /\ \A i \in 1..Len(MasterObjects) : Represented(MasterObjects[i], ret.objects)
              /\ MasterSlideNumbers # {} => ret.slideNumber # Null
              /\ (MasterSlideNumbers # {} /\ ResultWithoutMasterShapes.slideNumber = Null) =>
                    \E n \in MasterSlideNumbers : \A k \in {"x", "y", "w", "h"} : ret.slideNumber[k] = n[k]

\* a layout with the flag at 0 under a master that has a slide number and a
\* logo, neither of which reaches the result
C25_Witness ==
    /\ op = "masterData"
    /\ ~arg.layout.showMasterSp
    /\ MasterSlideNumbers # {}
    /\ Len(MasterObjects) > 0
    /\ ret.slideNumber = Null
    /\ ~(\E i \in 1..Len(ret.objects) : Has(ret.objects[i], "image"))

\* the flag left out: the master's slide number and logo are in the result
C25_WitnessShown ==
    /\ op = "masterData"
    /\ arg.layout.showMasterSp
    /\ MasterSlideNumbers # {}
    /\ ret # ResultWithoutMasterShapes
    /\ ret.slideNumber # Null
    /\ \E i \in 1..Len(ret.objects) : Has(ret.objects[i], "image")

----------------------------------------------------------------------------
(* text.js: line spacing of paragraphs and list-style levels *)

\* the defined fields of what extractLineSpacing returns
extractLineSpacing(lnSpc) ==
    IF lnSpc = Null \/ lnSpc = EmptyElement THEN <<>>
    ELSE IF Truthy(lnSpc, "a:spcPts")
    THEN [lineSpacing |-> Q(NumberOr0(lnSpc["a:spcPts"], "@_val"), 100)]
    ELSE IF Truthy(lnSpc, "a:spcPct")
    THEN [lineSpacingMultiple |-> Q(NumberOr0(lnSpc["a:spcPct"], "@_val"), 100000)]
    ELSE <<>>

\* the alignment, line spacing and runs extractParagraph gives for a:pPr
SpacedParagraph(pPr) ==
    ParagraphAlign(pPr) @@ extractLineSpacing(FieldOrNull(pPr, "a:lnSpc"))
    @@ [runs |-> <<[text |-> <<"H","i">>]>>]

\* the alignment and line spacing extractLevelProps gives for a:lvl1pPr
SpacedLevel(lvlPr) ==
    (IF Has(ALIGN_MAP, NameOr(lvlPr, "@_algn", "")) THEN [align |-> ALIGN_MAP[lvlPr["@_algn"]]] ELSE <<>>)
    @@ extractLineSpacing(FieldOrNull(lvlPr, "a:lnSpc"))

\* a:lnSpc elements: points, percent, both children, neither
LnSpcElements ==
    {Null, EmptyElement,
     Wrap("a:spcPts", ValEl(1200)),
     Wrap("a:spcPts", ValEl(0)),
     Wrap("a:spcPts", EmptyElement) @@ Wrap("a:spcPct", ValEl(150000)),
     Wrap("a:spcPct", ValEl(90000)),
     Wrap("a:spcPct", Wrap("@_other", 1)),
     Wrap("a:spcPts", ValEl(1800)) @@ Wrap("a:spcPct", ValEl(90000))}

\* a:pPr and a:lvl1pPr elements with each of them
SpacedElements ==
    {IF lnSpc = Null THEN <<>> ELSE Wrap("a:lnSpc", lnSpc) : lnSpc \in LnSpcElements}
    \cup {Wrap("@_algn", "ctr") @@ Wrap("a:lnSpc", Wrap("a:spcPct", ValEl(90000)))}

\* text properties as extractTextProps leaves them for a body of one or no
\* paragraph and a list style of one or no level
SpacedTextProps ==
    {[paragraphs |-> paragraphs, plainText |-> <<"H","i">>, lstStyleProps |-> lst] :
        paragraphs \in {<<>>} \cup {<<SpacedParagraph(pPr)>> : pPr \in SpacedElements},
        lst \in {Null} \cup {(k :> SpacedLevel(lvlPr)) : k \in {"0", "1"}, lvlPr \in SpacedElements}}

InitSpacing ==
    /\ resolver = Null
    /\ op = "idle"
    /\ arg = <<>>
    /\ ret = <<>>
    /\ NoRun

ExtractLineSpacing(lnSpc) ==
    /\ op = "idle"
    /\ op' = "extractLineSpacing"
    /\ arg' = [lnSpc |-> lnSpc]
    /\ ret' = extractLineSpacing(lnSpc)
    /\ UNCHANGED <<resolver, outputDir, step>>

NextSpacing ==
    \/ \E lnSpc \in LnSpcElements : ExtractLineSpacing(lnSpc)
    \/ \E textProps \in SpacedTextProps : MapTextPropsToOptions(textProps)
    \/ Done

SpecSpacing == InitSpacing /\ [][NextSpacing]_vars

----------------------------------------------------------------------------
(* Absolute and relative line spacing *)

CarriesBoth(o) == Has(o, "lineSpacing") /\ Has(o, "lineSpacingMultiple")

\* the paragraphs and list-style levels of the text properties
SpacedParts(textProps) ==
    {textProps.paragraphs[i] : i \in 1..Len(textProps.paragraphs)}
    \cup (IF textProps.lstStyleProps = Null THEN {}
          ELSE {textProps.lstStyleProps[k] : k \in DOMAIN textProps.lstStyleProps})

\* C26: no paragraph and no list-style level extractTextProps produces, and
\* no options object mapTextPropsToOptions produces from them, carries an
\* absolute lineSpacing and a relative lineSpacingMultiple at the same time.
C26_LineSpacingExclusive ==
    /\ op = "extractLineSpacing" => ~CarriesBoth(ret)
    /\ op = "mapTextPropsToOptions" =>
          /\ \A part \in SpacedParts(arg) : ~CarriesBoth(part)
          /\ ~CarriesBoth(ret)

\* the extraction alone: paragraphs and levels never carry both
ExtractedSpacingExclusive ==
    /\ op = "extractLineSpacing" => ~CarriesBoth(ret)
    /\ op = "mapTextPropsToOptions" => \A part \in SpacedParts(arg) : ~CarriesBoth(part)

----------------------------------------------------------------------------
(* What one placeholder contributes to its layout's result *)

\* mapSlideNumberAndFooters takes the placeholder for the slide number or
\* for a footer, date, header or copyright text object
TakenBySlideNumberAndFooters(ph) ==
    NameOr(ph, "type", "") = "sldNum" \/ FooterObjectsOf(ph) # <<>>

\* the objects hold a placeholder object of the placeholder's name
EmittedAsPlaceholder(ph, objects) ==
    \E i \in 1..Len(objects) :
        /\ Has(objects[i], "placeholder")
        /\ objects[i].placeholder.options.name = NameOr(ph, "name", "")

\* the slide number and the objects of the result
EntriesOf(masterData) ==
    Len(masterData.objects) + (IF masterData.slideNumber # Null THEN 1 ELSE 0)

\* C27: every placeholder of a layout contributes at most one entry to the
\* layout's output: one that mapSlideNumberAndFooters turns into the slide
\* number or a footer, date, header or copyright text object is not also
\* emitted as a placeholder object, so a layout of placeholders alone has at
\* most as many entries as placeholders.
C27_OneEntryPerPlaceholder ==
    op = "masterData" =>
        /\ \A i \in 1..Len(arg.layout.placeholders) :
              TakenBySlideNumberAndFooters(arg.layout.placeholders[i])
                  => ~EmittedAsPlaceholder(arg.layout.placeholders[i], ret.objects)
        /\ (arg.layout.staticShapes = <<>> /\ arg.masters = <<>>)
              => EntriesOf(ret) <= Len(arg.layout.placeholders)

\* the same of the placeholders that carry a type
TypedPlaceholdersOnce ==
    (op = "masterData" /\ \A i \in 1..Len(arg.layout.placeholders) : Has(arg.layout.placeholders[i], "type")) =>
        /\ \A i \in 1..Len(arg.layout.placeholders) :
              TakenBySlideNumberAndFooters(arg.layout.placeholders[i])
                  => ~EmittedAsPlaceholder(arg.layout.placeholders[i], ret.objects)
        /\ (arg.layout.staticShapes = <<>> /\ arg.masters = <<>>)
              => EntriesOf(ret) <= Len(arg.layout.placeholders)

----------------------------------------------------------------------------
(* What deduplicateObjects removes *)

KindOf(obj) ==
    IF Has(obj, "placeholder") THEN "placeholder"
    ELSE IF Has(obj, "text") THEN "text"
    ELSE IF Has(obj, "image") THEN "image"
    ELSE IF Has(obj, "rect") THEN "rect"
    ELSE "other"

SamePosition(a, b) == \A k \in {"x", "y", "w", "h"} : Get(a, k) = Get(b, k)

\* same kind, same position, and the same text, image path, or fill and line
VisuallyIdentical(a, b) ==
    /\ KindOf(a) = KindOf(b)
    /\ KindOf(a) \in {"text", "image", "rect"}
    /\ KindOf(a) = "text" =>
          /\ Get(a.text, "text") = Get(b.text, "text")
          /\ SamePosition(Get(a.text, "options"), Get(b.text, "options"))
    /\ KindOf(a) = "image" =>
          /\ Get(a.image, "path") = Get(b.image, "path")
          /\ SamePosition(a.image, b.image)
    /\ KindOf(a) = "rect" =>
          /\ SamePosition(a.rect, b.rect)
          /\ Get(a.rect, "fill") = Get(b.rect, "fill")
          /\ Get(a.rect, "line") = Get(b.rect, "line")

\* the ways of picking the kept objects out of the list, in order
Selections(objects, kept) ==
    {f \in [1..Len(kept) -> 1..Len(objects)] :
        /\ \A k \in 1..Len(kept) : kept[k] = objects[f[k]]
        /\ \A k \in 1..Len(kept), l \in 1..Len(kept) : k < l => f[k] < f[l]}

\* every object left out is no placeholder and follows a kept twin
RemovesOnlyTwins(objects, f) ==
    \A i \in 1..Len(objects) :
        (\A k \in DOMAIN f : f[k] # i) =>
            /\ ~Has(objects[i], "placeholder")
            /\ \E k \in DOMAIN f : f[k] < i /\ VisuallyIdentical(objects[f[k]], objects[i])

\* the object comes from the layout itself
OfLayout(object) ==
    \/ Has(object, "placeholder")
    \/ Represented(object, StaticObjects(arg.layout.staticShapes, MappedResolver,
                                         FieldOrNull(arg.layout, "relationships"))
                           \o mapSlideNumberAndFooters(arg.layout.placeholders).footerObjects)

\* C28: deduplicateObjects removes an object only when an earlier object of
\* the list is kept and is visually identical to it (same kind, same
\* position, and same text, image path, or for rectangles same fill and
\* line); placeholder objects are never removed; the kept objects keep
\* their order, and in a layout's objects the layout's own come ahead of
\* those inherited from the master.
C28_RemovesOnlyVisualTwins ==
    /\ op = "deduplicateObjects" =>
          \E f \in Selections(arg.objects, ret.objects) : RemovesOnlyTwins(arg.objects, f)
    /\ op = "masterData" =>
          \A i \in 1..Len(ret.objects), j \in 1..Len(ret.objects) :
              (i < j /\ OfLayout(ret.objects[j])) => OfLayout(ret.objects[i])

\* the same without the fill and line of rectangles
RemovesOnlyKeyTwins ==
    /\ op = "deduplicateObjects" =>
          \E f \in Selections(arg.objects, ret.objects) :
              \A i \in 1..Len(arg.objects) :
                  (\A k \in DOMAIN f : f[k] # i) =>
                      /\ ~Has(arg.objects[i], "placeholder")
                      /\ \E k \in DOMAIN f : /\ f[k] < i
                                             /\ DedupKey(arg.objects[f[k]]) = DedupKey(arg.objects[i])
                                             /\ DedupKey(arg.objects[i]) # <<>>
    /\ op = "masterData" =>
          \A i \in 1..Len(ret.objects), j \in 1..Len(ret.objects) :
              (i < j /\ OfLayout(ret.objects[j])) => OfLayout(ret.objects[i])

----------------------------------------------------------------------------
(* Where a layout's slide number comes from *)

\* the shape's text holds a slide-number field and nothing else
SlideNumberOnly(shape) ==
    /\ shape # Null
    /\ Has(shape, "textProps")
    /\ Has(Get(shape, "textProps"), "paragraphs")
    /\ \E run \in RunsOfShape(shape) : IsSlideNumField(run)
    /\ ~(\E run \in RunsOfShape(shape) : IsOtherContent(run))

\* the numbers of the layout's sldNum placeholders that have a size
SizedPlaceholderNumbers(placeholders) ==
    {extractSlideNumberProps(placeholders[i]) :
        i \in {j \in 1..Len(placeholders) :
                  /\ NameOr(placeholders[j], "type", "") = "sldNum"
                  /\ ~ZeroSize(extractSlideNumberProps(placeholders[j]))}}

\* the number of the first slide-number-only shape, Null when there is none
RECURSIVE FirstShapeNumber(_)
FirstShapeNumber(shapes) ==
    IF shapes = <<>> THEN Null
    ELSE IF SlideNumberOnly(Head(shapes)) THEN extractSlideNumberFromShape(Head(shapes))
    ELSE FirstShapeNumber(Tail(shapes))

\* the master's shapes when the layout shows them
ShownMasterShapes ==
    IF arg.layout.showMasterSp /\ MappedMaster # Null THEN MappedMaster.staticShapes ELSE <<>>

\* the slide number is the given one, coloured for the background
IsNumber(slideNumber, n) == slideNumber = WithSlideNumberColor(n, ret.background)

\* the shape's object is among the layout's objects
ShapeInObjects(shape, relationships) ==
    /\ mapShape(shape, MappedResolver, relationships).object # Null
    /\ Represented(mapShape(shape, MappedResolver, relationships).object, ret.objects)

NoSlideNumberShapeInObjects ==
    /\ \A i \in 1..Len(arg.layout.staticShapes) :
          SlideNumberOnly(arg.layout.staticShapes[i])
              => ~ShapeInObjects(arg.layout.staticShapes[i], arg.layout.relationships)
    /\ \A i \in 1..Len(ShownMasterShapes) :
          SlideNumberOnly(ShownMasterShapes[i])
              => ~ShapeInObjects(ShownMasterShapes[i], MappedMaster.relationships)

\* C29: the slide number of a layout is a sldNum placeholder of the layout
\* that has a size if there is one; otherwise the first slide-number-only
\* static shape of the layout; otherwise the first slide-number-only static
\* shape of the master when master shapes are shown; otherwise none. No
\* slide-number-only static shape is among the layout's objects.
C29_SlideNumberPriority ==
    op = "masterData" =>
        /\ IF SizedPlaceholderNumbers(arg.layout.placeholders) # {}
           THEN \E n \in SizedPlaceholderNumbers(arg.layout.placeholders) : IsNumber(ret.slideNumber, n)
           ELSE IF FirstShapeNumber(arg.layout.staticShapes) # Null
           THEN IsNumber(ret.slideNumber, FirstShapeNumber(arg.layout.staticShapes))
           ELSE IsNumber(ret.slideNumber, FirstShapeNumber(ShownMasterShapes))
        /\ NoSlideNumberShapeInObjects

\* the first shape extractSlideNumberFromShape gives a number for
RECURSIVE FirstSizedShapeNumber(_)
FirstSizedShapeNumber(shapes) ==
    IF shapes = <<>> THEN Null
    ELSE IF extractSlideNumberFromShape(Head(shapes)) # Null THEN extractSlideNumberFromShape(Head(shapes))
    ELSE FirstSizedShapeNumber(Tail(shapes))

\* the order the loops follow: the last sldNum placeholder when it has a
\* size, then the shapes that have a size; those are not among the objects
LastPlaceholderPriority ==
    op = "masterData" =>
        /\ IF mapSlideNumberAndFooters(arg.layout.placeholders).slideNumber # Null
           THEN IsNumber(ret.slideNumber, mapSlideNumberAndFooters(arg.layout.placeholders).slideNumber)
           ELSE IF FirstSizedShapeNumber(arg.layout.staticShapes) # Null
           THEN IsNumber(ret.slideNumber, FirstSizedShapeNumber(arg.layout.staticShapes))
           ELSE IsNumber(ret.slideNumber, FirstSizedShapeNumber(ShownMasterShapes))
        /\ \A i \in 1..Len(arg.layout.staticShapes) :
              extractSlideNumberFromShape(arg.layout.staticShapes[i]) # Null
                  => ~ShapeInObjects(arg.layout.staticShapes[i], arg.layout.relationships)
        /\ \A i \in 1..Len(ShownMasterShapes) :
              extractSlideNumberFromShape(ShownMasterShapes[i]) # Null
                  => ~ShapeInObjects(ShownMasterShapes[i], MappedMaster.relationships)

----------------------------------------------------------------------------
(* index.js: the colour map in force for a layout *)

\* p:clrMap elements of a master: none, the standard attributes, dark and
\* light swapped, an element without attributes
ClrMapElements ==
    {EmptyElement,
     [k \in {"@_" \o n : n \in DOMAIN DEFAULT_CLR_MAP} |-> DEFAULT_CLR_MAP[StripPrefix(k)]],
     [k \in {"@_" \o n : n \in DOMAIN SwapClrMap} |-> SwapClrMap[StripPrefix(k)]],
     Wrap("a:extLst", Wrap("a:ext", EmptyElement))}

\* the override of a layout: none, or text on the light colour
ClrMapOverrides == {Null, [tx1 |-> "lt1"], [bg1 |-> "dk1", tx1 |-> "lt1"]}

LogicalNames == {"bg1", "tx1", "bg2", "tx2"}

ResolvedNames == LogicalNames \cup {"accent1", "dk1", "lt2"}

\* the master as parseSlideMaster leaves its colour map
MasterWithClrMap(clrMapEl) ==
    [clrMap |-> parseClrMap(clrMapEl), background |-> Null, staticShapes |-> <<>>,
     placeholderDefaults |-> <<>>]

InitClrMap ==
    /\ resolver = Null
    /\ op = "idle"
    /\ arg = <<>>
    /\ ret = <<>>
    /\ NoRun

\* extract builds the layout's resolver from its master's map and its
\* override, and a mapper resolves a scheme name with it
ResolveForLayout(themeColors, clrMapEl, override, schemeName) ==
    /\ op = "idle"
    /\ op' = "layoutColorResolver"
    /\ arg' = [themeColors |-> themeColors, master |-> MasterWithClrMap(clrMapEl),
               clrMapOverride |-> override, schemeName |-> schemeName]
    /\ resolver' = LayoutColorResolver(themeColors, <<MasterWithClrMap(clrMapEl)>>,
                                       MasterWithClrMap(clrMapEl), override)
    /\ ret' = [hex |-> resolveSchemeColor(
                           LayoutColorResolver(themeColors, <<MasterWithClrMap(clrMapEl)>>,
                                               MasterWithClrMap(clrMapEl), override),
                           schemeName)]
    /\ UNCHANGED <<outputDir, step>>

\* the result is taken, the resolver is dropped with the layout
DropResolver ==
    /\ op = "layoutColorResolver"
    /\ op' = "idle"
    /\ arg' = <<>>
    /\ ret' = <<>>
    /\ resolver' = Null
    /\ UNCHANGED <<outputDir, step>>

NextClrMap ==
    \/ \E themeColors \in Themes, clrMapEl \in ClrMapElements, override \in ClrMapOverrides,
          schemeName \in ResolvedNames :
          ResolveForLayout(themeColors, clrMapEl, override, schemeName)
    \/ DropResolver

SpecClrMap == InitClrMap /\ [][NextClrMap]_vars

----------------------------------------------------------------------------
(* A master without a colour map *)

NoColourMap ==
    /\ op = "layoutColorResolver"
    /\ arg.master.clrMap = <<>>
    /\ arg.clrMapOverride = Null

\* C30: when the layout's master supplies no colour map (parseClrMap yields
\* an empty map) and the layout has no override, bg1, tx1, bg2 and tx2
\* resolve to the theme colours of lt1, dk1, lt2 and dk2, exactly as under
\* the standard default colour mapping.
C30_EmptyMapResolvesAsDefault ==
    (NoColourMap /\ arg.schemeName \in LogicalNames) =>
        /\ ret.hex = resolveSchemeColor(createColorResolver(arg.themeColors, DEFAULT_CLR_MAP),
                                        arg.schemeName)
        /\ Has(arg.themeColors, DEFAULT_CLR_MAP[arg.schemeName])
              => ret.hex = arg.themeColors[DEFAULT_CLR_MAP[arg.schemeName]]

\* what the empty map gives: the name itself is looked up in the theme
EmptyMapResolvesByName ==
    (NoColourMap /\ arg.schemeName \in LogicalNames) =>
        ret.hex = HexOr(arg.themeColors, arg.schemeName, BLACK)

====
